---- MODULE Spec2Model ----
(***************************************************************************)
(* Process memory debugging engine: the simulated process (memory map,     *)
(* registers, instructions, breakpoints, edit history), the MemoryEditor   *)
(* typed layer over it and the ProcessBridge session facade.               *)
(*                                                                         *)
(* Python strings are sequences of one-character strings, so that hex(),   *)
(* int(s, 16), int(s), float(s) and str() are computed digit by digit.     *)
(* Python values are records [t, n, s]: t is the Python type, n the number *)
(* (an int, or a float counted in hundredths), s the text of a str.        *)
(***************************************************************************)
EXTENDS Integers, Sequences, FiniteSets, TLC

(***************************************************************************)
(* Python values                                                           *)
(***************************************************************************)
FloatScale == 10 * 10

PyNone == [t |-> "none", n |-> 0, s |-> <<>>]
PyInt(i) == [t |-> "int", n |-> i, s |-> <<>>]
PyFloat(h) == [t |-> "float", n |-> h, s |-> <<>>]
PyStr(cs) == [t |-> "str", n |-> 0, s |-> cs]
\* The empty list [], a value that is neither a number nor a str
PyList == [t |-> "list", n |-> 0, s |-> <<>>]

\* Python's == on values: int and float compare by number, str by text.
PyEq(x, y) ==
    CASE x.t = "int" /\ y.t = "int" -> x.n = y.n
      [] x.t = "float" /\ y.t = "float" -> x.n = y.n
      [] x.t = "int" /\ y.t = "float" -> x.n * FloatScale = y.n
      [] x.t = "float" /\ y.t = "int" -> x.n = y.n * FloatScale
      [] x.t = "str" /\ y.t = "str" -> x.s = y.s
      [] x.t = "none" /\ y.t = "none" -> TRUE
      [] OTHER -> FALSE

(***************************************************************************)
(* Digits, hex() and the int()/float()/str() conversions                   *)
(***************************************************************************)
HexChars == <<"0", "1", "2", "3", "4", "5", "6", "7",
              "8", "9", "a", "b", "c", "d", "e", "f">>
UpperHexChars == <<"A", "B", "C", "D", "E", "F">>

IsDecDigit(c) == \E i \in 1..10 : HexChars[i] = c
IsHexDigit(c) == (\E i \in 1..16 : HexChars[i] = c) \/ (\E i \in 1..6 : UpperHexChars[i] = c)

DigitVal(c) ==
    IF \E i \in 1..16 : HexChars[i] = c
    THEN (CHOOSE i \in 1..16 : HexChars[i] = c) - 1
    ELSE (CHOOSE i \in 1..6 : UpperHexChars[i] = c) + 9

\* The digits of n >= 0 in the given base, most significant first: digits[q]
\* is the text of the quotient q, built from the text of q \div base.
NatDigits(n, base) ==
    LET digits[q \in 0..n] ==
            IF q < base THEN <<HexChars[q + 1]>>
            ELSE Append(digits[q \div base], HexChars[(q % base) + 1])
    IN  digits[n]

\* Python hex(n): "0x..." lowercase, a negative number as "-0x...".
Hex(n) ==
    IF n < 0 THEN <<"-", "0", "x">> \o NatDigits(0 - n, 16)
    ELSE <<"0", "x">> \o NatDigits(n, 16)

StartsWith(cs, prefix) ==
    /\ Len(cs) >= Len(prefix)
    /\ SubSeq(cs, 1, Len(prefix)) = prefix

Drop(cs, k) == SubSeq(cs, k + 1, Len(cs))

\* The number a digit string denotes in the given base: value[k] is the
\* number its first k digits denote.
DigitsValue(cs, base) ==
    LET value[k \in 0..Len(cs)] ==
            IF k = 0 THEN 0 ELSE value[k - 1] * base + DigitVal(cs[k])
    IN  value[Len(cs)]

ValueError == [ok |-> FALSE, n |-> 0]
Parsed(n) == [ok |-> TRUE, n |-> n]

\* The sign of a numeric literal and the text after it.
SignOf(cs) == IF Len(cs) > 0 /\ cs[1] = "-" THEN -1 ELSE 1
Unsigned(cs) == IF Len(cs) > 0 /\ (cs[1] = "-" \/ cs[1] = "+") THEN Drop(cs, 1) ELSE cs

\* Python int(s, 16): optional sign, optional 0x/0X prefix, hex digits.
ParseInt16(cs) ==
    LET body == Unsigned(cs)
        digits == IF StartsWith(body, <<"0", "x">>) \/ StartsWith(body, <<"0", "X">>)
                  THEN Drop(body, 2) ELSE body
    IN  IF Len(digits) > 0 /\ \A i \in 1..Len(digits) : IsHexDigit(digits[i])
        THEN Parsed(SignOf(cs) * DigitsValue(digits, 16))
        ELSE ValueError

\* Python int(s) for a str: optional sign, decimal digits.
ParseInt10(cs) ==
    LET digits == Unsigned(cs)
    IN  IF Len(digits) > 0 /\ \A i \in 1..Len(digits) : IsDecDigit(digits[i])
        THEN Parsed(SignOf(cs) * DigitsValue(digits, 10))
        ELSE ValueError

\* Python float(s) for a str, in hundredths: optional sign, digits, and an
\* optional point followed by at most two digits.
ParseFloat(cs) ==
    LET body == Unsigned(cs)
        dots == {i \in 1..Len(body) : body[i] = "."}
        dot == IF dots = {} THEN Len(body) + 1 ELSE CHOOSE i \in dots : TRUE
        whole == SubSeq(body, 1, dot - 1)
        frac == SubSeq(body, dot + 1, Len(body))
        frac2 == IF Len(frac) = 0 THEN <<"0", "0">>
                 ELSE IF Len(frac) = 1 THEN Append(frac, "0") ELSE frac
    IN  IF /\ Cardinality(dots) <= 1
           /\ Len(whole) + Len(frac) > 0
           /\ Len(frac) <= 2
           /\ \A i \in 1..Len(whole) : IsDecDigit(whole[i])
           /\ \A i \in 1..Len(frac) : IsDecDigit(frac[i])
        THEN Parsed(SignOf(cs) * (DigitsValue(whole, 10) * FloatScale + DigitsValue(frac2, 10)))
        ELSE ValueError

\* Python str(i) for an int.
FormatInt(i) == IF i < 0 THEN <<"-">> \o NatDigits(0 - i, 10) ELSE NatDigits(i, 10)

\* Python str(f) for a float given in hundredths: 3.14, 3.1, 42.0.
FormatFloat(h) ==
    LET a == IF h < 0 THEN 0 - h ELSE h
        tenths == (a % FloatScale) \div 10
        hundredths == a % 10
        frac == IF hundredths = 0 THEN <<HexChars[tenths + 1]>>
                ELSE <<HexChars[tenths + 1], HexChars[hundredths + 1]>>
    IN  (IF h < 0 THEN <<"-">> ELSE <<>>) \o NatDigits(a \div FloatScale, 10) \o <<".">> \o frac

\* int(f) for a float: truncation towards zero.
TruncFloat(h) == IF h < 0 THEN 0 - ((0 - h) \div FloatScale) ELSE h \div FloatScale

\* A conversion returns its value, or fails with the ValueError that the
\* caller's except clause catches, or raises the TypeError of int(None),
\* int([]), float(None), float([]), which that clause does not catch.
Converted(v) == [ok |-> TRUE, raised |-> FALSE, value |-> v]
ConversionFailed == [ok |-> FALSE, raised |-> FALSE, value |-> PyNone]
ConversionRaised == [ok |-> FALSE, raised |-> TRUE, value |-> PyNone]

\* The "int" branch of the editor's value conversion.
ConvertInt(value) ==
    IF value.t = "str" /\ StartsWith(value.s, <<"0", "x">>)
    THEN LET p == ParseInt16(value.s)
         IN  IF p.ok THEN Converted(PyInt(p.n)) ELSE ConversionFailed
    ELSE CASE value.t = "int" -> Converted(value)
           [] value.t = "float" -> Converted(PyInt(TruncFloat(value.n)))
           [] value.t \in {"none", "list"} -> ConversionRaised
           [] OTHER -> LET p == ParseInt10(value.s)
                       IN  IF p.ok THEN Converted(PyInt(p.n)) ELSE ConversionFailed

\* float(value)
ConvertFloat(value) ==
    CASE value.t = "int" -> Converted(PyFloat(value.n * FloatScale))
      [] value.t = "float" -> Converted(value)
      [] value.t \in {"none", "list"} -> ConversionRaised
      [] OTHER -> LET p == ParseFloat(value.s)
                  IN  IF p.ok THEN Converted(PyFloat(p.n)) ELSE ConversionFailed

\* str(value)
ConvertStr(value) ==
    CASE value.t = "int" -> Converted(PyStr(FormatInt(value.n)))
      [] value.t = "float" -> Converted(PyStr(FormatFloat(value.n)))
      [] value.t = "none" -> Converted(PyStr(<<"N", "o", "n", "e">>))
      [] value.t = "list" -> Converted(PyStr(<<"[", "]">>))
      [] OTHER -> Converted(value)

(***************************************************************************)
(* Names: register names, operand strings and process ids are str too      *)
(***************************************************************************)
RAX == <<"r", "a", "x">>
RBX == <<"r", "b", "x">>
RSP == <<"r", "s", "p">>
RIP == <<"r", "i", "p">>
ZF == <<"z", "f">>
SF == <<"s", "f">>

\* The keys of SimulatedProcess.registers
RegisterNames ==
    {RAX, RBX, <<"r", "c", "x">>, <<"r", "d", "x">>, <<"r", "s", "i">>, <<"r", "d", "i">>,
     <<"r", "b", "p">>, RSP, <<"r", "8">>, <<"r", "9">>, <<"r", "1", "0">>,
     <<"r", "1", "1">>, <<"r", "1", "2">>, <<"r", "1", "3">>, <<"r", "1", "4">>,
     <<"r", "1", "5">>, RIP, <<"r", "f", "l", "a", "g", "s">>, <<"c", "f">>, ZF, SF,
     <<"o", "f">>}

EmptyMap == [a \in {} |-> PyNone]

\* dict[key] = value
MapSet(m, key, value) ==
    [a \in DOMAIN m \cup {key} |-> IF a = key THEN value ELSE m[a]]

(***************************************************************************)
(* Instruction, Breakpoint, Symbol                                         *)
(***************************************************************************)
Instruction(address, opcode, operands, bytes_repr) ==
    [address |-> address, opcode |-> opcode, operands |-> operands, bytes |-> bytes_repr]

NoCondition == "None"

Breakpoint(address, bp_type, condition) ==
    [address |-> address, type |-> bp_type, condition |-> condition,
     enabled |-> TRUE, hit_count |-> 0]

Symbol(address, name, symbol_type) ==
    [address |-> address, name |-> name, type |-> symbol_type]

(***************************************************************************)
(* SimulatedProcess                                                        *)
(***************************************************************************)
HistoryLimit == 50

SimulatedProcess(name, pid, memory) ==
    [name |-> name,
     pid |-> pid,
     memory |-> memory,
     registers |-> [r \in RegisterNames |-> PyInt(0)],
     instructions |-> EmptyMap,
     breakpoints |-> EmptyMap,
     symbols |-> EmptyMap,
     symbols_by_name |-> EmptyMap,
     running |-> FALSE,
     memory_history |-> <<>>,
     history_position |-> -1]

\* A save_memory_state that appends without cutting the entries after the
\* cursor
SaveMemoryStateBranching(p, limit) ==
    LET appended == Append(p.memory_history, p.memory)
    IN  IF Len(appended) > limit
        THEN [p EXCEPT !.memory_history = Tail(appended),
                       !.history_position = Len(appended) - 2]
        ELSE [p EXCEPT !.memory_history = appended,
                       !.history_position = Len(appended) - 1]

\* A save_memory_state that makes room by dropping the entry it appended
SaveMemoryStateDroppingNewest(p, limit) ==
    LET kept == IF p.history_position < Len(p.memory_history) - 1
                THEN SubSeq(p.memory_history, 1, p.history_position + 1)
                ELSE p.memory_history
        appended == Append(kept, p.memory)
    IN  IF Len(appended) > limit
        THEN [p EXCEPT !.memory_history = kept,
                       !.history_position = Len(kept) - 1]
        ELSE [p EXCEPT !.memory_history = appended,
                       !.history_position = Len(appended) - 1]

\* save_memory_state with the history limit as a parameter
SaveMemoryStateLimit(p, limit) ==
    LET kept == IF p.history_position < Len(p.memory_history) - 1
                THEN SubSeq(p.memory_history, 1, p.history_position + 1)
                ELSE p.memory_history
        appended == Append(kept, p.memory)
        position == Len(appended) - 1
    IN  IF Len(appended) > limit
        THEN [p EXCEPT !.memory_history = Tail(appended),
                       !.history_position = position - 1]
        ELSE [p EXCEPT !.memory_history = appended,
                       !.history_position = position]

\* A save_memory_state that lets the history grow one entry longer
SaveMemoryStateLonger(p) == SaveMemoryStateLimit(p, HistoryLimit + 1)

SaveMemoryState(p) == SaveMemoryStateLimit(p, HistoryLimit)

Result(p, ret) == [p |-> p, ret |-> ret]

\* An undo_memory_change that restores the entry before the cursor and
\* leaves the cursor where it was
UndoMemoryChangeInPlace(p) ==
    IF p.history_position > 0
    THEN Result([p EXCEPT !.memory = p.memory_history[p.history_position]], TRUE)
    ELSE Result(p, FALSE)

UndoMemoryChange(p) ==
    IF p.history_position > 0
    THEN Result([p EXCEPT !.history_position = p.history_position - 1,
                          !.memory = p.memory_history[p.history_position]],
                TRUE)
    ELSE Result(p, FALSE)

\* A redo_memory_change that moves the cursor and leaves the memory map
RedoMemoryChangeKeepingMap(p) ==
    IF p.history_position < Len(p.memory_history) - 1
    THEN Result([p EXCEPT !.history_position = p.history_position + 1], TRUE)
    ELSE Result(p, FALSE)

RedoMemoryChange(p) ==
    IF p.history_position < Len(p.memory_history) - 1
    THEN Result([p EXCEPT !.history_position = p.history_position + 1,
                          !.memory = p.memory_history[p.history_position + 2]],
                TRUE)
    ELSE Result(p, FALSE)

(***************************************************************************)
(* _generate_sample_code and create_process                                *)
(***************************************************************************)
MainAddr == 4195584          \* 0x400500
CalculateAddr == 4195840     \* 0x400600
PrintResultAddr == 4196096   \* 0x400700
HandleErrorAddr == 4196352   \* 0x400800
CounterAddr == 6295552       \* 0x601000
ResultAddr == 6295560        \* 0x601008
MessageAddr == 6295568       \* 0x601010

\* (name, address) of the sample functions
SampleFunctions ==
    <<<<<<"m", "a", "i", "n">>, MainAddr>>,
      <<<<"c", "a", "l", "c", "u", "l", "a", "t", "e">>, CalculateAddr>>,
      <<<<"p", "r", "i", "n", "t", "_", "r", "e", "s", "u", "l", "t">>, PrintResultAddr>>,
      <<<<"h", "a", "n", "d", "l", "e", "_", "e", "r", "r", "o", "r">>, HandleErrorAddr>>>>

\* (name, address, value) of the sample variables
SampleVariables ==
    <<<<<<"c", "o", "u", "n", "t", "e", "r">>, CounterAddr, PyInt(0)>>,
      <<<<"r", "e", "s", "u", "l", "t">>, ResultAddr, PyInt(0)>>,
      <<<<"m", "e", "s", "s", "a", "g", "e">>, MessageAddr,
        PyStr(<<"H", "e", "l", "l", "o", ",", " ",
                "D", "e", "b", "u", "g", "g", "e", "r", "!">>)>>>>

\* (address, opcode, operands, the whitespace-separated tokens of bytes_repr)
SampleInstructions ==
    <<Instruction(Hex(MainAddr), "mov", <<RAX, <<"0">>>>,
                  <<"48", "c7", "c0", "00", "00", "00", "00">>),
      Instruction(Hex(MainAddr + 7), "mov", <<RBX, <<"1", "0">>>>,
                  <<"48", "c7", "c3", "0a", "00", "00", "00">>),
      Instruction(Hex(MainAddr + 14), "call", <<Hex(CalculateAddr)>>,
                  <<"e8", "e7", "00", "00", "00">>),
      Instruction(Hex(MainAddr + 19), "cmp", <<RAX, <<"0">>>>,
                  <<"48", "83", "f8", "00">>),
      Instruction(Hex(MainAddr + 23), "je", <<Hex(HandleErrorAddr)>>,
                  <<"0f", "84", "d7", "02", "00", "00">>),
      Instruction(Hex(MainAddr + 29), "call", <<Hex(PrintResultAddr)>>,
                  <<"e8", "d2", "01", "00", "00">>),
      Instruction(Hex(MainAddr + 34), "ret", <<>>, <<"c3">>)>>

GenerateSampleCode(p) ==
    LET fsyms == [a \in {Hex(SampleFunctions[i][2]) : i \in 1..Len(SampleFunctions)} |->
                    LET i == CHOOSE j \in 1..Len(SampleFunctions) : Hex(SampleFunctions[j][2]) = a
                    IN  Symbol(a, SampleFunctions[i][1], "function")]
        vsyms == [a \in {Hex(SampleVariables[i][2]) : i \in 1..Len(SampleVariables)} |->
                    LET i == CHOOSE j \in 1..Len(SampleVariables) : Hex(SampleVariables[j][2]) = a
                    IN  Symbol(a, SampleVariables[i][1], "variable")]
        syms == [a \in DOMAIN fsyms \cup DOMAIN vsyms |->
                    IF a \in DOMAIN vsyms THEN vsyms[a] ELSE fsyms[a]]
        names == [nm \in {syms[a].name : a \in DOMAIN syms} |->
                    syms[CHOOSE a \in DOMAIN syms : syms[a].name = nm]]
        mem == [a \in DOMAIN p.memory \cup DOMAIN vsyms |->
                    IF a \in DOMAIN vsyms
                    THEN SampleVariables[CHOOSE j \in 1..Len(SampleVariables) :
                                            Hex(SampleVariables[j][2]) = a][3]
                    ELSE p.memory[a]]
        instrs == [a \in {SampleInstructions[i].address : i \in 1..Len(SampleInstructions)} |->
                    SampleInstructions[CHOOSE j \in 1..Len(SampleInstructions) :
                                          SampleInstructions[j].address = a]]
    IN  [p EXCEPT !.symbols = syms,
                  !.symbols_by_name = names,
                  !.memory = mem,
                  !.instructions = instrs,
                  !.registers = [p.registers EXCEPT ![RIP] = PyInt(MainAddr)]]

\* A create_process that leaves the history empty
CreatedProcessUnsaved(name, pid, initial_memory) ==
    GenerateSampleCode(SimulatedProcess(name, pid, initial_memory))

\* The process create_process stores under the new pid.
CreatedProcess(name, pid, initial_memory) ==
    SaveMemoryState(GenerateSampleCode(SimulatedProcess(name, pid, initial_memory)))

(***************************************************************************)
(* Python arithmetic and comparison on register and memory values          *)
(***************************************************************************)
IsNumber(x) == x.t = "int" \/ x.t = "float"
TypeError == [raised |-> TRUE, value |-> PyNone]
Computed(v) == [raised |-> FALSE, value |-> v]

\* x + y
PyAdd(x, y) ==
    CASE x.t = "int" /\ y.t = "int" -> Computed(PyInt(x.n + y.n))
      [] x.t = "float" /\ y.t = "float" -> Computed(PyFloat(x.n + y.n))
      [] x.t = "int" /\ y.t = "float" -> Computed(PyFloat(x.n * FloatScale + y.n))
      [] x.t = "float" /\ y.t = "int" -> Computed(PyFloat(x.n + y.n * FloatScale))
      [] x.t = "str" /\ y.t = "str" -> Computed(PyStr(x.s \o y.s))
      [] OTHER -> TypeError

\* x - y
PySub(x, y) ==
    CASE x.t = "int" /\ y.t = "int" -> Computed(PyInt(x.n - y.n))
      [] x.t = "float" /\ y.t = "float" -> Computed(PyFloat(x.n - y.n))
      [] x.t = "int" /\ y.t = "float" -> Computed(PyFloat(x.n * FloatScale - y.n))
      [] x.t = "float" /\ y.t = "int" -> Computed(PyFloat(x.n - y.n * FloatScale))
      [] OTHER -> TypeError

\* x < y on numbers (a str is compared with nothing here: only rip can hold
\* one, and no stored instruction compares rip)
PyLess(x, y) ==
    LET xs == IF x.t = "int" THEN x.n * FloatScale ELSE x.n
        ys == IF y.t = "int" THEN y.n * FloatScale ELSE y.n
    IN  xs < ys

(***************************************************************************)
(* _execute_instruction                                                    *)
(***************************************************************************)
IsDigitStr(cs) == Len(cs) > 0 /\ \A i \in 1..Len(cs) : IsDecDigit(cs[i])

\* The source operand of mov/add/sub: decimal immediate, hex immediate,
\* or a register (0 for an unknown name).
SourceValue(p, src) ==
    IF IsDigitStr(src) \/ (StartsWith(src, <<"-">>) /\ IsDigitStr(Drop(src, 1)))
    THEN Computed(PyInt(ParseInt10(src).n))
    ELSE IF StartsWith(src, <<"0", "x">>)
    THEN LET h == ParseInt16(src)
         IN  IF h.ok THEN Computed(PyInt(h.n)) ELSE TypeError
    ELSE Computed(IF src \in DOMAIN p.registers THEN p.registers[src] ELSE PyInt(0))

\* An operand of cmp: a register, int(x, 0) for a 0x literal, int(x) otherwise.
CompareValue(p, operand) ==
    IF operand \in DOMAIN p.registers THEN Computed(p.registers[operand])
    ELSE LET v == IF StartsWith(operand, <<"0", "x">>) THEN ParseInt16(operand)
                  ELSE ParseInt10(operand)
         IN  IF v.ok THEN Computed(PyInt(v.n)) ELSE TypeError

\* len(instr.bytes.split()) // 2
InstructionLength(instr) == Len(instr.bytes) \div 2

\* The target of jmp/je/call: a 0x address, or a symbol name; `stay` when the
\* symbol is unknown.
JumpTarget(p, target, stay) ==
    IF StartsWith(target, <<"0", "x">>)
    THEN LET h == ParseInt16(target)
         IN  IF h.ok THEN Computed(PyInt(h.n)) ELSE TypeError
    ELSE IF target \in DOMAIN p.symbols_by_name
    THEN LET h == ParseInt16(p.symbols_by_name[target].address)
         IN  IF h.ok THEN Computed(PyInt(h.n)) ELSE TypeError
    ELSE Computed(PyInt(stay))

Executed(p, next_rip) == [p |-> p, next_rip |-> next_rip, raised |-> FALSE]
Raised(p) == [p |-> p, next_rip |-> PyNone, raised |-> TRUE]

\* registers[dst] = r or memory[dst] = r, for the sum or difference r
StoreResult(p, dst, in_register, r, next) ==
    IF r.raised THEN Raised(p)
    ELSE IF in_register THEN Executed([p EXCEPT !.registers[dst] = r.value], next)
    ELSE Executed([p EXCEPT !.memory[dst] = r.value], next)

\* The effect of mov/add/sub once its source value `src` is known
ApplyArithmetic(p, dst, src, next, apply) ==
    IF src.raised THEN Raised(p)
    ELSE IF apply = "mov"
    THEN IF dst \in DOMAIN p.registers
         THEN Executed([p EXCEPT !.registers[dst] = src.value], next)
         ELSE Executed([p EXCEPT !.memory = MapSet(p.memory, dst, src.value)], next)
    ELSE IF dst \in DOMAIN p.registers
    THEN StoreResult(p, dst, TRUE,
                     IF apply = "add" THEN PyAdd(p.registers[dst], src.value)
                     ELSE PySub(p.registers[dst], src.value),
                     next)
    ELSE IF dst \in DOMAIN p.memory
    THEN StoreResult(p, dst, FALSE,
                     IF apply = "add" THEN PyAdd(p.memory[dst], src.value)
                     ELSE PySub(p.memory[dst], src.value),
                     next)
    ELSE Executed(p, next)

\* mov/add/sub: `apply` is "mov", "add" or "sub"
ExecuteArithmetic(p, instr, rip, apply) ==
    IF Len(instr.operands) # 2 THEN Raised(p)
    ELSE ApplyArithmetic(p, instr.operands[1], SourceValue(p, instr.operands[2]),
                         PyInt(rip + InstructionLength(instr)), apply)

\* The flags cmp sets from its two operand values
SetFlags(p, left, right, next) ==
    IF left.raised \/ right.raised THEN Raised(p)
    ELSE Executed([p EXCEPT !.registers[ZF] =
                                PyInt(IF PyEq(left.value, right.value) THEN 1 ELSE 0),
                            !.registers[SF] =
                                PyInt(IF PyLess(left.value, right.value) THEN 1 ELSE 0)],
                  next)

\* jmp, a taken je, and the transfer of call: to the target `t`
Jump(p, t) == IF t.raised THEN Raised(p) ELSE Executed(p, t.value)

\* The transfer of call, in the process with the return address pushed
PushedJump(pushed, target, rip) == Jump(pushed, JumpTarget(pushed, target, rip))

\* A call that stores the return address below the stack pointer and leaves
\* the stack pointer where it was
PushAndJumpKeepingSp(p, rsp, target, rip, return_address) ==
    IF rsp.raised \/ rsp.value.t # "int" THEN Raised(p)
    ELSE PushedJump([p EXCEPT !.memory = MapSet(p.memory, Hex(rsp.value.n),
                                                PyInt(return_address))],
                    target, rip)

\* call with the new stack pointer `rsp`: push the return address, then jump
PushAndJump(p, rsp, target, rip, return_address) ==
    IF rsp.raised \/ rsp.value.t # "int" THEN Raised(p)
    ELSE PushedJump([p EXCEPT !.registers[RSP] = rsp.value,
                              !.memory = MapSet(p.memory, Hex(rsp.value.n),
                                                PyInt(return_address))],
                    target, rip)

ExecuteInstruction(p, address) ==
    IF address \notin DOMAIN p.instructions
    THEN Executed(p, PyInt(ParseInt16(address).n + 1))
    ELSE
    LET instr == p.instructions[address]
        rip == ParseInt16(address).n
        len == InstructionLength(instr)
    IN  CASE instr.opcode \in {"mov", "add", "sub"} ->
                ExecuteArithmetic(p, instr, rip, instr.opcode)
          [] instr.opcode = "jmp" ->
                IF Len(instr.operands) = 0 THEN Raised(p)
                ELSE Jump(p, JumpTarget(p, instr.operands[1], rip))
          [] instr.opcode = "cmp" ->
                IF Len(instr.operands) # 2 THEN Raised(p)
                ELSE SetFlags(p, CompareValue(p, instr.operands[1]),
                              CompareValue(p, instr.operands[2]), PyInt(rip + len))
          [] instr.opcode = "je" ->
                IF PyEq(p.registers[ZF], PyInt(1))
                THEN IF Len(instr.operands) = 0 THEN Raised(p)
                     ELSE Jump(p, JumpTarget(p, instr.operands[1], rip))
                ELSE Executed(p, PyInt(rip + len))
          [] instr.opcode = "call" ->
                IF Len(instr.operands) = 0 THEN Raised(p)
                ELSE PushAndJump(p, PySub(p.registers[RSP], PyInt(8)),
                                 instr.operands[1], rip, rip + len)
          [] instr.opcode = "ret" ->
                LET rsp == p.registers[RSP]
                IN  IF rsp.t # "int" THEN Raised(p)
                    ELSE IF Hex(rsp.n) \in DOMAIN p.memory
                    THEN Executed([p EXCEPT !.registers[RSP] = PyInt(rsp.n + 8)],
                                  p.memory[Hex(rsp.n)])
                    ELSE Executed(p, PyInt(rip))
          [] OTHER -> Executed(p, PyInt(rip + len))

\* A _check_memory_breakpoints that fires an enabled breakpoint of any kind
CheckMemoryBreakpointsAnyKind(p, address, access_type) ==
    IF address \in DOMAIN p.breakpoints /\ p.breakpoints[address].enabled
    THEN [p EXCEPT !.breakpoints[address].hit_count = p.breakpoints[address].hit_count + 1,
                   !.running = FALSE]
    ELSE p

\* A _check_memory_breakpoints that fires only a breakpoint set without a
\* condition
CheckMemoryBreakpointsUnconditional(p, address, access_type) ==
    IF address \in DOMAIN p.breakpoints
       /\ p.breakpoints[address].enabled
       /\ p.breakpoints[address].condition = NoCondition
       /\ (p.breakpoints[address].type = access_type \/ p.breakpoints[address].type = "access")
    THEN [p EXCEPT !.breakpoints[address].hit_count = p.breakpoints[address].hit_count + 1,
                   !.running = FALSE]
    ELSE p

\* _check_memory_breakpoints
CheckMemoryBreakpoints(p, address, access_type) ==
    IF address \in DOMAIN p.breakpoints
       /\ p.breakpoints[address].enabled
       /\ (p.breakpoints[address].type = access_type \/ p.breakpoints[address].type = "access")
    THEN [p EXCEPT !.breakpoints[address].hit_count = p.breakpoints[address].hit_count + 1,
                   !.running = FALSE]
    ELSE p

(***************************************************************************)
(* ProcessSimulator methods, as functions of the process table             *)
(***************************************************************************)
Outcome(procs, ret) == [procs |-> procs, ret |-> ret]

\* A write_memory that saves the state and checks the breakpoints, then
\* returns without storing the value
WriteMemoryNotStored(procs, pid, address, value) ==
    IF pid \notin DOMAIN procs THEN Outcome(procs, FALSE)
    ELSE Outcome([procs EXCEPT ![pid] =
                     CheckMemoryBreakpoints(SaveMemoryState(procs[pid]), address, "write")],
                 TRUE)

\* ProcessSimulator.write_memory
WriteMemory(procs, pid, address, value) ==
    IF pid \notin DOMAIN procs THEN Outcome(procs, FALSE)
    ELSE LET saved == SaveMemoryState(procs[pid])
             checked == CheckMemoryBreakpoints(saved, address, "write")
             written == [checked EXCEPT !.memory = MapSet(checked.memory, address, value)]
         IN  Outcome([procs EXCEPT ![pid] = written], TRUE)

\* ProcessSimulator.undo_memory_edit
UndoMemoryEdit(procs, pid) ==
    IF pid \notin DOMAIN procs THEN Outcome(procs, FALSE)
    ELSE LET r == UndoMemoryChange(procs[pid])
         IN  Outcome([procs EXCEPT ![pid] = r.p], r.ret)

\* ProcessSimulator.redo_memory_edit
RedoMemoryEdit(procs, pid) ==
    IF pid \notin DOMAIN procs THEN Outcome(procs, FALSE)
    ELSE LET r == RedoMemoryChange(procs[pid])
         IN  Outcome([procs EXCEPT ![pid] = r.p], r.ret)

\* ProcessSimulator.set_register
SetRegister(procs, pid, register, value) ==
    IF pid \notin DOMAIN procs \/ register \notin DOMAIN procs[pid].registers
    THEN Outcome(procs, FALSE)
    ELSE Outcome([procs EXCEPT ![pid].registers[register] = value], TRUE)

\* sorted([int(addr, 16) for addr in process.instructions.keys()])
SortedAddresses(p) ==
    LET ints == {ParseInt16(a).n : a \in DOMAIN p.instructions}
    IN  [k \in 1..Cardinality(ints) |->
            CHOOSE a \in ints : Cardinality({b \in ints : b < a}) = k - 1]

\* start_idx: the index (from 0) of the first address >= start_addr_int, and
\* 0 when the loop finds none
StartIndex(addresses, start_addr_int) ==
    IF \E i \in 1..Len(addresses) : addresses[i] >= start_addr_int
    THEN (CHOOSE i \in 1..Len(addresses) :
             /\ addresses[i] >= start_addr_int
             /\ \A j \in 1..(i - 1) : addresses[j] < start_addr_int) - 1
    ELSE 0

\* ProcessSimulator.get_instructions; start_address is {} for None
GetInstructions(procs, pid, start_address, count) ==
    IF pid \notin DOMAIN procs THEN Computed(<<>>)
    ELSE LET p == procs[pid]
             given == IF start_address = {} THEN <<>> ELSE CHOOSE a \in start_address : TRUE
             start == IF given = <<>>
                      THEN IF p.registers[RIP].t = "int"
                           THEN [ok |-> TRUE, n |-> p.registers[RIP].n]
                           ELSE [ok |-> FALSE, n |-> 0]
                      ELSE ParseInt16(given)
             addresses == SortedAddresses(p)
             start_idx == StartIndex(addresses, start.n)
             stop == IF start_idx + count < Len(addresses) THEN start_idx + count
                     ELSE Len(addresses)
         IN  IF ~start.ok THEN TypeError
             ELSE Computed([i \in 1..(stop - start_idx) |->
                               p.instructions[Hex(addresses[start_idx + i])]])

\* ProcessSimulator.set_breakpoint
SetBreakpointAt(procs, pid, address, bp_type, condition) ==
    IF pid \notin DOMAIN procs THEN Outcome(procs, FALSE)
    ELSE Outcome([procs EXCEPT ![pid].breakpoints =
                      MapSet(procs[pid].breakpoints, address,
                             Breakpoint(address, bp_type, condition))], TRUE)

\* ProcessSimulator.remove_breakpoint
RemoveBreakpointAt(procs, pid, address) ==
    IF pid \notin DOMAIN procs \/ address \notin DOMAIN procs[pid].breakpoints
    THEN Outcome(procs, FALSE)
    ELSE Outcome([procs EXCEPT ![pid].breakpoints =
                      [a \in DOMAIN procs[pid].breakpoints \ {address} |->
                          procs[pid].breakpoints[a]]], TRUE)

\* A toggle that always enables the breakpoint
ToggleBreakpointAtEnabling(procs, pid, address) ==
    IF pid \notin DOMAIN procs \/ address \notin DOMAIN procs[pid].breakpoints
    THEN Outcome(procs, <<FALSE, FALSE>>)
    ELSE Outcome([procs EXCEPT ![pid].breakpoints[address].enabled = TRUE], <<TRUE, TRUE>>)

\* ProcessSimulator.toggle_breakpoint: ret is (success, new_state)
ToggleBreakpointAt(procs, pid, address) ==
    IF pid \notin DOMAIN procs \/ address \notin DOMAIN procs[pid].breakpoints
    THEN Outcome(procs, <<FALSE, FALSE>>)
    ELSE LET flipped == ~procs[pid].breakpoints[address].enabled
         IN  Outcome([procs EXCEPT ![pid].breakpoints[address].enabled = flipped],
                     <<TRUE, flipped>>)

(***************************************************************************)
(* MemoryEditor: value conversion, the memory view, the scan               *)
(***************************************************************************)
\* ''.join(value.split()): the text without its blanks
WithoutBlanks(cs) ==
    LET kept[k \in 0..Len(cs)] ==
            IF k = 0 THEN <<>>
            ELSE IF cs[k] = " " THEN kept[k - 1]
            ELSE Append(kept[k - 1], cs[k])
    IN  kept[Len(cs)]

\* The "bytes" branch of write_process_memory
ConvertBytes(value) ==
    IF value.t # "str" THEN Converted(value)
    ELSE LET p == IF StartsWith(value.s, <<"0", "x">>) THEN ParseInt16(value.s)
                  ELSE ParseInt16(WithoutBlanks(value.s))
         IN  IF p.ok THEN Converted(PyInt(p.n)) ELSE ConversionFailed

\* The data types write_process_memory and scan_memory share
TypedKinds == {"int", "float", "string"}

\* The conversion of write_process_memory; an unknown data_type fails.
ConvertForWrite(value, data_type) ==
    CASE data_type = "int" -> ConvertInt(value)
      [] data_type = "float" -> ConvertFloat(value)
      [] data_type = "string" -> ConvertStr(value)
      [] data_type = "bytes" -> ConvertBytes(value)
      [] OTHER -> ConversionFailed

\* The conversion of scan_memory
ConvertForScan(value, data_type) ==
    CASE data_type = "int" -> ConvertInt(value)
      [] data_type = "float" -> ConvertFloat(value)
      [] data_type = "string" -> ConvertStr(value)
      [] OTHER -> ConversionFailed

\* isinstance(value, ...) in read_process_memory
DataType(value) ==
    CASE value.t = "int" -> "int"
      [] value.t = "float" -> "float"
      [] value.t = "str" -> "string"
      [] OTHER -> "unknown"

\* read_process_memory's result for an attached process (the display
\* strings formatted_value and hex are left out)
MemoryView(p) ==
    [a \in DOMAIN p.memory |->
        [value |-> p.memory[a],
         type |-> DataType(p.memory[a]),
         symbol |-> IF a \in DOMAIN p.symbols THEN p.symbols[a].name ELSE <<>>,
         has_breakpoint |-> a \in DOMAIN p.breakpoints,
         breakpoint_enabled |-> IF a \in DOMAIN p.breakpoints
                                THEN p.breakpoints[a].enabled ELSE FALSE,
         breakpoint_type |-> IF a \in DOMAIN p.breakpoints
                             THEN p.breakpoints[a].type ELSE "None"]]

\* A scan loop that stops at its first match
ScanItemsFirstMatch(memory, todo, search_value) ==
    LET matches == {a \in todo : PyEq(memory[a], search_value)}
    IN  IF matches = {} THEN <<>> ELSE <<CHOOSE a \in matches : TRUE>>

\* The loop of scan_memory over the items of the memory map: matches[left]
\* is what the loop appends while the addresses `left` are still to visit.
ScanItems(memory, todo, search_value) ==
    LET matches[left \in SUBSET todo] ==
            IF left = {} THEN <<>>
            ELSE LET address == CHOOSE a \in left : TRUE
                 IN  IF PyEq(memory[address], search_value)
                     THEN <<address>> \o matches[left \ {address}]
                     ELSE matches[left \ {address}]
    IN  matches[todo]

\* scan_memory's result for an attached process
ScanResult(p, value, data_type) ==
    LET c == ConvertForScan(value, data_type)
    IN  IF c.ok THEN ScanItems(p.memory, DOMAIN p.memory, c.value) ELSE <<>>

(***************************************************************************)
(* AndroidProcessConnector. The output of an adb command is a sequence of  *)
(* lines, a line the sequence of its whitespace-separated words.           *)
(***************************************************************************)
\* word in line, for a word without whitespace
Mentions(line, word) ==
    \E i \in 1..Len(line) : \E k \in 1..(Len(line[i]) - Len(word) + 1) :
        SubSeq(line[i], k, k + Len(word) - 1) = word

\* stdout.strip().split('\n'): the blank lines at both ends are gone, and
\* an output without any word is one empty line
StrippedLines(stdout) ==
    LET filled == {i \in 1..Len(stdout) : stdout[i] # <<>>}
    IN  IF filled = {} THEN <<<<>>>>
        ELSE SubSeq(stdout, CHOOSE i \in filled : \A j \in filled : i <= j,
                            CHOOSE i \in filled : \A j \in filled : i >= j)

AndroidResult(a, ret) == [android |-> a, ret |-> ret]

\* The loop of is_android_connected over lines[first:]
FirstDeviceLine(a, lines, first) ==
    LET found == {i \in first..Len(lines) :
                     lines[i] # <<>> /\ Mentions(lines[i], <<"d", "e", "v", "i", "c", "e">>)}
    IN  IF found = {} THEN AndroidResult(a, FALSE)
        ELSE AndroidResult([a EXCEPT !.device_id =
                               {lines[CHOOSE i \in found : \A j \in found : i <= j][1]}],
                           TRUE)

\* An is_android_connected whose loop starts at the header line
IsAndroidConnectedFromHeader(a, runs, stdout) ==
    IF ~runs THEN AndroidResult(a, FALSE)
    ELSE FirstDeviceLine(a, StrippedLines(stdout), 1)

\* is_android_connected(); `runs`: both adb commands ran and exited with 0,
\* `stdout` is the output of "adb devices".
IsAndroidConnected(a, runs, stdout) ==
    IF ~runs THEN AndroidResult(a, FALSE)
    ELSE IF Len(StrippedLines(stdout)) <= 1 THEN AndroidResult(a, FALSE)
    ELSE FirstDeviceLine(a, StrippedLines(stdout), 2)

\* The dict list_processes appends for the columns `parts` of one line
ProcessEntry(parts) ==
    [pid |-> parts[2], name |-> parts[Len(parts)], type |-> "android", status |-> "running"]

\* The loop of list_processes over lines[first:]
ProcessEntries(lines, first) ==
    LET listed[k \in 0..Len(lines)] ==
            IF k < first THEN <<>>
            ELSE IF Len(lines[k]) >= 8 THEN Append(listed[k - 1], ProcessEntry(lines[k]))
            ELSE listed[k - 1]
    IN  listed[Len(lines)]

\* A list_processes whose loop starts at the header line
ListProcessesFromHeader(a, runs, devices, ps_runs, stdout) ==
    LET c == IsAndroidConnected(a, runs, devices)
    IN  IF ~c.ret \/ ~ps_runs THEN AndroidResult(c.android, <<>>)
        ELSE AndroidResult(c.android, ProcessEntries(StrippedLines(stdout), 1))

\* list_processes(); `devices` is the output of "adb devices", `ps_runs`:
\* "adb shell ps -e" exited with 0, `stdout` is its output.
ListProcesses(a, runs, devices, ps_runs, stdout) ==
    LET c == IsAndroidConnected(a, runs, devices)
    IN  IF ~c.ret \/ ~ps_runs THEN AndroidResult(c.android, <<>>)
        ELSE AndroidResult(c.android, ProcessEntries(StrippedLines(stdout), 2))

\* "uid=0" in result.stdout
ReportsUid(stdout, uid) == \E i \in 1..Len(stdout) : Mentions(stdout[i], uid)

\* An is_device_rooted that trusts the id command without a connected device
IsDeviceRootedUnconnected(a, runs, devices, stdout) ==
    AndroidResult(IsAndroidConnected(a, runs, devices).android,
                  ReportsUid(stdout, <<"u", "i", "d", "=", "0">>))

\* is_device_rooted(); `stdout` is the output of "adb shell su -c 'id'",
\* which is run without check, so that a failing su only prints nothing
IsDeviceRooted(a, runs, devices, stdout) ==
    LET c == IsAndroidConnected(a, runs, devices)
    IN  IF ~c.ret THEN AndroidResult(c.android, FALSE)
        ELSE AndroidResult(c.android, ReportsUid(stdout, <<"u", "i", "d", "=", "0">>))

(***************************************************************************)
(* State                                                                   *)
(***************************************************************************)
VARIABLES
    processes,   \* ProcessSimulator.processes: pid -> SimulatedProcess
    editor_pid,  \* MemoryEditor.current_process_id: {} (None) or {pid}
    bridge,      \* ProcessBridge: current_type, current_id ({} is None), ...
    connector,   \* the Linux RealProcessConnector: attached_pid, process_handle
    os,          \* the host: the live real pids and those this program traces
    run,         \* the frame of run_until_breakpoint while its loop runs
    executed,    \* how many times _execute_instruction was called so far
    last,        \* the last state-changing call that returned
    trail,       \* the call before it, and whether that was the first call
    qry,         \* the last query, if no call changed state since
    prev,        \* the process table as it was when the last call began
    android,     \* AndroidProcessConnector: connected, current_pid, device_id
    requests     \* each request handler in flight: its position and its target

vars == <<processes, editor_pid, bridge, connector, os, run, executed,
          last, trail, qry, prev, android, requests>>

NoRun == [active |-> FALSE, pid |-> <<>>, steps |-> 0, max_steps |-> 0, count |-> 0]
NoQuery == [op |-> "none", pid |-> <<>>, value |-> PyNone, data_type |-> "None"]

MemoryOf(procs, pid) == IF pid \in DOMAIN procs THEN procs[pid].memory ELSE EmptyMap

\* One returned call: its name and arguments (arg: the value as it was
\* passed, where the call converts it), what it returned (ok), whether it
\* raised instead, and the memory map of its process and the bridge's
\* current target (current_type, current_id) when it began.
LogEntry(op, pid, addr, val, ok, raised) ==
    [op |-> op, pid |-> pid, addr |-> addr, val |-> val, data_type |-> "None",
     arg |-> {}, ok |-> ok, raised |-> raised, mem0 |-> MemoryOf(processes, pid),
     target0 |-> <<bridge.current_type, bridge.current_id>>]

NoCall == [op |-> "init", pid |-> <<>>, addr |-> <<>>, val |-> PyNone,
           data_type |-> "None", arg |-> {}, ok |-> TRUE, raised |-> FALSE,
           mem0 |-> EmptyMap, target0 |-> <<{}, {}>>]

\* The calls the trail tells apart once they have succeeded.
TrackedCalls == {"init", "write", "undo", "redo"}

\* What the trail keeps of the call before the last one: its name and process
\* if it succeeded, and whether no call came before it.
NameOf(entry) ==
    IF entry.ok /\ ~entry.raised /\ entry.op \in TrackedCalls
    THEN [op |-> entry.op, pid |-> entry.pid]
    ELSE [op |-> "other", pid |-> <<>>]

NoTrail == [before |-> NameOf(NoCall), first |-> TRUE]

\* What every state-changing call does to the bookkeeping variables.
Returns(entry) ==
    /\ last' = entry
    /\ trail' = [before |-> NameOf(last), first |-> trail.before.op = "init"]
    /\ qry' = NoQuery
    /\ prev' = processes

\* MemoryEditor.attach_to_process, the first statement of every editor method
EditorAttached(pid) == IF pid \in DOMAIN processes THEN {pid} ELSE editor_pid

(***************************************************************************)
(* MemoryEditor operations                                                 *)
(***************************************************************************)
\* write_process_memory(process_id, address, value, data_type)
WriteProcessMemory(pid, address, value, data_type) ==
    /\ ~run.active
    /\ LET c == ConvertForWrite(value, data_type)
           w == IF pid \in DOMAIN processes /\ c.ok
                THEN WriteMemory(processes, pid, address, c.value)
                ELSE Outcome(processes, FALSE)
       IN  /\ processes' = w.procs
           /\ Returns([LogEntry("write", pid, address, c.value, w.ret,
                                pid \in DOMAIN processes /\ c.raised)
                          EXCEPT !.data_type = data_type, !.arg = {value}])
    /\ editor_pid' = EditorAttached(pid)
    /\ UNCHANGED <<bridge, connector, os, run, executed, android, requests>>

\* undo_memory_edit(process_id)
UndoEdit(pid) ==
    /\ ~run.active
    /\ LET u == UndoMemoryEdit(processes, pid)
       IN  /\ processes' = u.procs
           /\ Returns(LogEntry("undo", pid, <<>>, PyNone, u.ret, FALSE))
    /\ editor_pid' = EditorAttached(pid)
    /\ UNCHANGED <<bridge, connector, os, run, executed, android, requests>>

\* redo_memory_edit(process_id)
RedoEdit(pid) ==
    /\ ~run.active
    /\ LET r == RedoMemoryEdit(processes, pid)
       IN  /\ processes' = r.procs
           /\ Returns(LogEntry("redo", pid, <<>>, PyNone, r.ret, FALSE))
    /\ editor_pid' = EditorAttached(pid)
    /\ UNCHANGED <<bridge, connector, os, run, executed, android, requests>>

\* read_process_memory(process_id)
ReadProcessMemory(pid) ==
    /\ ~run.active
    /\ qry' = [NoQuery EXCEPT !.op = "read", !.pid = pid]
    /\ prev' = processes
    /\ editor_pid' = EditorAttached(pid)
    /\ UNCHANGED <<processes, bridge, connector, os, run, executed, last, trail, android, requests>>

\* scan_memory(process_id, value, data_type)
ScanMemory(pid, value, data_type) ==
    /\ ~run.active
    /\ qry' = [op |-> "scan", pid |-> pid, value |-> value, data_type |-> data_type]
    /\ prev' = processes
    /\ editor_pid' = EditorAttached(pid)
    /\ UNCHANGED <<processes, bridge, connector, os, run, executed, last, trail, android, requests>>

\* get_process_instructions(process_id, start_address, count)
GetProcessInstructions(pid, start_address, count) ==
    /\ ~run.active
    /\ qry' = [op |-> "get_instructions", pid |-> pid,
               value |-> [start_address |-> start_address, count |-> count],
               data_type |-> "None"]
    /\ prev' = processes
    /\ editor_pid' = EditorAttached(pid)
    /\ UNCHANGED <<processes, bridge, connector, os, run, executed, last, trail, android, requests>>

\* set_register_value(process_id, register, value)
SetRegisterValue(pid, register, value) ==
    /\ ~run.active
    /\ LET c == ConvertInt(value)
           r == IF pid \in DOMAIN processes /\ c.ok
                THEN SetRegister(processes, pid, register, c.value)
                ELSE Outcome(processes, FALSE)
       IN  /\ processes' = r.procs
           /\ Returns(LogEntry("set_register", pid, register, c.value, r.ret,
                               pid \in DOMAIN processes /\ c.raised))
    /\ editor_pid' = EditorAttached(pid)
    /\ UNCHANGED <<bridge, connector, os, run, executed, android, requests>>

\* set_breakpoint(process_id, address, bp_type, condition)
SetBreakpoint(pid, address, bp_type, condition) ==
    /\ ~run.active
    /\ LET r == SetBreakpointAt(processes, pid, address, bp_type, condition)
       IN  /\ processes' = r.procs
           /\ Returns(LogEntry("set_breakpoint", pid, address, PyNone, r.ret, FALSE))
    /\ editor_pid' = EditorAttached(pid)
    /\ UNCHANGED <<bridge, connector, os, run, executed, android, requests>>

\* remove_breakpoint(process_id, address)
RemoveBreakpoint(pid, address) ==
    /\ ~run.active
    /\ LET r == RemoveBreakpointAt(processes, pid, address)
       IN  /\ processes' = r.procs
           /\ Returns(LogEntry("remove_breakpoint", pid, address, PyNone, r.ret, FALSE))
    /\ editor_pid' = EditorAttached(pid)
    /\ UNCHANGED <<bridge, connector, os, run, executed, android, requests>>

\* toggle_breakpoint(process_id, address): the entry's ok is the first
\* component of the returned pair, its val holds the second as 1 or 0
ToggleBreakpoint(pid, address) ==
    /\ ~run.active
    /\ LET r == ToggleBreakpointAt(processes, pid, address)
       IN  /\ processes' = r.procs
           /\ Returns(LogEntry("toggle_breakpoint", pid, address,
                               PyInt(IF r.ret[2] THEN 1 ELSE 0), r.ret[1], FALSE))
    /\ editor_pid' = EditorAttached(pid)
    /\ UNCHANGED <<bridge, connector, os, run, executed, android, requests>>

(***************************************************************************)
(* Execution control: step_instruction and run_until_breakpoint            *)
(***************************************************************************)
\* A step that looks for a breakpoint first, as a pass of the run loop does
SteppedHalting(pid, rip_hex, x) ==
    /\ executed' = executed + 1
    /\ processes' = [processes EXCEPT ![pid] =
                        IF rip_hex \in DOMAIN processes[pid].breakpoints
                           /\ processes[pid].breakpoints[rip_hex].enabled
                        THEN [processes[pid] EXCEPT !.breakpoints[rip_hex].hit_count =
                                 processes[pid].breakpoints[rip_hex].hit_count + 1]
                        ELSE IF x.raised THEN x.p
                        ELSE [x.p EXCEPT !.registers[RIP] = x.next_rip]]
    /\ Returns(LogEntry("step", pid, rip_hex, PyNone,
                        ~x.raised /\ x.next_rip.t = "int",
                        x.raised \/ x.next_rip.t # "int"))

\* step_instruction once _execute_instruction has returned or raised (x)
Stepped(pid, rip_hex, x) ==
    /\ executed' = executed + 1
    /\ processes' = [processes EXCEPT ![pid] =
                        IF x.raised THEN x.p
                        ELSE [x.p EXCEPT !.registers[RIP] = x.next_rip]]
    /\ Returns(LogEntry("step", pid, rip_hex, PyNone,
                        ~x.raised /\ x.next_rip.t = "int",
                        x.raised \/ x.next_rip.t # "int"))

\* step_instruction(process_id); hex(rip) raises when rip holds no int, and
\* so does hex(next_rip) in the log line, after rip was updated
StepInstruction(pid) ==
    /\ ~run.active
    /\ IF pid \notin DOMAIN processes
       THEN /\ Returns(LogEntry("step", pid, <<>>, PyNone, FALSE, FALSE))
            /\ UNCHANGED <<processes, executed>>
       ELSE IF processes[pid].registers[RIP].t # "int"
       THEN /\ Returns(LogEntry("step", pid, <<>>, PyNone, FALSE, TRUE))
            /\ UNCHANGED <<processes, executed>>
       ELSE \E x \in {ExecuteInstruction(processes[pid],
                                         Hex(processes[pid].registers[RIP].n))} :
               Stepped(pid, Hex(processes[pid].registers[RIP].n), x)
    /\ editor_pid' = EditorAttached(pid)
    /\ UNCHANGED <<bridge, connector, os, run, android, requests>>

\* run_until_breakpoint(process_id, max_steps) up to its loop
RunUntilBreakpoint(pid, max_steps) ==
    /\ ~run.active
    /\ IF pid \notin DOMAIN processes
       THEN /\ Returns(LogEntry("run", pid, <<>>, PyInt(max_steps), FALSE, FALSE))
            /\ UNCHANGED <<processes, run>>
       ELSE /\ processes' = [processes EXCEPT ![pid].running = TRUE]
            /\ run' = [active |-> TRUE, pid |-> pid, steps |-> 0,
                       max_steps |-> max_steps, count |-> 0]
            /\ Returns(LogEntry("run", pid, <<>>, PyInt(max_steps), FALSE, FALSE))
    /\ editor_pid' = EditorAttached(pid)
    /\ UNCHANGED <<bridge, connector, os, executed, android, requests>>

\* A loop condition that admits one more pass
LoopContinuesInclusive(p, steps, max_steps) == p.running /\ steps <= max_steps

\* The loop condition: while process.running and steps < max_steps
LoopContinues(p, steps, max_steps) == p.running /\ steps < max_steps

\* A test that takes an enabled breakpoint of any kind for a stop
ExecutionBreakpointAtAnyKind(p, rip_hex) ==
    /\ rip_hex \in DOMAIN p.breakpoints
    /\ p.breakpoints[rip_hex].enabled

\* if rip_hex in process.breakpoints and process.breakpoints[rip_hex].enabled
\* (and) bp.type == "execution"
ExecutionBreakpointAt(p, rip_hex) ==
    /\ rip_hex \in DOMAIN p.breakpoints
    /\ p.breakpoints[rip_hex].enabled
    /\ p.breakpoints[rip_hex].type = "execution"

\* The rest of a pass once the instruction at rip has returned or raised (x)
RunExecuted(x, steps) ==
    IF x.raised
    THEN [p |-> x.p, steps |-> steps, ran |-> 1,
          done |-> TRUE, ret |-> FALSE, raised |-> TRUE]
    ELSE [p |-> [x.p EXCEPT !.registers[RIP] = x.next_rip], steps |-> steps + 1,
          ran |-> 1, done |-> FALSE, ret |-> FALSE, raised |-> FALSE]

\* A loop body that executes without looking for a breakpoint
RunAtUnchecked(p, rip_hex, steps) == RunExecuted(ExecuteInstruction(p, rip_hex), steps)

\* The body of the loop at rip_hex: stop at the breakpoint, or execute
RunAt(p, rip_hex, steps) ==
    IF ExecutionBreakpointAt(p, rip_hex)
    THEN [p |-> [p EXCEPT !.breakpoints[rip_hex].hit_count =
                              p.breakpoints[rip_hex].hit_count + 1,
                          !.running = FALSE],
          steps |-> steps, ran |-> 0, done |-> TRUE, ret |-> TRUE, raised |-> FALSE]
    ELSE RunExecuted(ExecuteInstruction(p, rip_hex), steps)

\* One pass of the loop of run_until_breakpoint: the loop ends (done) by
\* returning `ret` or by raising, or goes on with one more step counted.
RunIteration(p, steps, max_steps) ==
    IF ~LoopContinues(p, steps, max_steps)
    THEN [p |-> [p EXCEPT !.running = FALSE], steps |-> steps, ran |-> 0,
          done |-> TRUE, ret |-> TRUE, raised |-> FALSE]
    ELSE IF p.registers[RIP].t # "int"
    THEN [p |-> p, steps |-> steps, ran |-> 0,
          done |-> TRUE, ret |-> FALSE, raised |-> TRUE]
    ELSE RunAt(p, Hex(p.registers[RIP].n), steps)

\* What one pass of the loop, with outcome `it`, does to the state
LoopPass(it) ==
    /\ processes' = [processes EXCEPT ![run.pid] = it.p]
    /\ executed' = executed + it.ran
    /\ IF it.done
       THEN /\ run' = [run EXCEPT !.active = FALSE, !.count = run.count + it.ran]
            /\ last' = [last EXCEPT !.ok = it.ret, !.raised = it.raised]
       ELSE /\ run' = [run EXCEPT !.steps = it.steps, !.count = run.count + it.ran]
            /\ UNCHANGED last

\* The loop of run_until_breakpoint, one pass at a time; the call's entry,
\* written when the call began, gets what the call returns when the loop ends
RunLoop ==
    /\ run.active
    /\ \E it \in {RunIteration(processes[run.pid], run.steps, run.max_steps)} :
          LoopPass(it)
    /\ UNCHANGED <<editor_pid, bridge, connector, os, trail, qry, prev, android, requests>>

(***************************************************************************)
(* create_process and delete_process                                       *)
(***************************************************************************)
\* create_process(name, initial_memory); pid is the fresh uuid4
CreateProcess(pid, name, initial_memory) ==
    /\ ~run.active
    /\ pid \notin DOMAIN processes
    /\ processes' = [q \in DOMAIN processes \cup {pid} |->
                        IF q = pid THEN CreatedProcess(name, pid, initial_memory)
                        ELSE processes[q]]
    /\ Returns(LogEntry("create", pid, <<>>, PyNone, TRUE, FALSE))
    /\ UNCHANGED <<editor_pid, bridge, connector, os, run, executed, android, requests>>

\* delete_process(pid)
DeleteProcess(pid) ==
    /\ ~run.active
    /\ processes' = [q \in DOMAIN processes \ {pid} |-> processes[q]]
    /\ Returns(LogEntry("delete", pid, <<>>, PyNone, pid \in DOMAIN processes, FALSE))
    /\ UNCHANGED <<editor_pid, bridge, connector, os, run, executed, android, requests>>

(***************************************************************************)
(* LinuxProcessConnector                                                   *)
(***************************************************************************)
NotAttached == [attached_pid |-> {}, process_handle |-> {}]

\* _check_attached
CheckAttached(c) == c.attached_pid # {} /\ c.process_handle # {}

Connected(c, host, ret) == [connector |-> c, os |-> host, ret |-> ret]

\* attach_to_process(pid). `permitted`: the kernel grants PTRACE_ATTACH;
\* `stops`: os.waitpid returns instead of raising.
ConnectorAttach(c, host, pid, permitted, stops) ==
    IF pid \notin host.alive THEN Connected(c, host, FALSE)
    ELSE IF ~permitted \/ pid \in host.traced THEN Connected(c, host, FALSE)
    ELSE LET attached == [host EXCEPT !.traced = host.traced \cup {pid}]
         IN  IF ~stops THEN Connected(c, attached, FALSE)
             ELSE Connected([attached_pid |-> {pid}, process_handle |-> {pid}],
                            attached, TRUE)

\* detach_from_process(); PTRACE_DETACH fails for a pid that is not traced
ConnectorDetach(c, host) ==
    IF ~CheckAttached(c) THEN Connected(c, host, FALSE)
    ELSE LET pid == CHOOSE q \in c.attached_pid : TRUE
         IN  IF pid \notin host.traced THEN Connected(c, host, FALSE)
             ELSE Connected(NotAttached, [host EXCEPT !.traced = host.traced \ {pid}], TRUE)

(***************************************************************************)
(* ProcessBridge                                                           *)
(***************************************************************************)
NewBridge(has_real_connector) ==
    [has_real_connector |-> has_real_connector,
     current_type |-> {},
     current_id |-> {},
     real_pid_map |-> EmptyMap]

\* self.current_type and self.current_id
HasCurrent(b) == b.current_type # {} /\ b.current_id # {}

Attached(b, c, host, ret) == [bridge |-> b, connector |-> c, os |-> host, ret |-> ret]

\* The `simulated` branch of attach_to_process
BridgeAttachSimulated(b, c, host, procs, process_id) ==
    LET d == IF b.current_type = {"real"} /\ b.current_id # {} /\ b.has_real_connector
             THEN ConnectorDetach(c, host)
             ELSE Connected(c, host, FALSE)
        success == process_id \in DOMAIN procs
    IN  Attached(IF success
                 THEN [b EXCEPT !.current_type = {"simulated"}, !.current_id = {process_id}]
                 ELSE b,
                 d.connector, d.os, success)

\* The `real` branch of attach_to_process
BridgeAttachReal(b, c, host, process_id, permitted, stops) ==
    IF ~b.has_real_connector THEN Attached(b, c, host, FALSE)
    ELSE LET real_pid == ParseInt10(process_id)
         IN  IF ~real_pid.ok THEN Attached(b, c, host, FALSE)
             ELSE LET d == IF HasCurrent(b) /\ b.current_type = {"real"}
                           THEN ConnectorDetach(c, host)
                           ELSE Connected(c, host, FALSE)
                      a == ConnectorAttach(d.connector, d.os, real_pid.n, permitted, stops)
                  IN  Attached(IF a.ret
                               THEN [b EXCEPT !.current_type = {"real"},
                                              !.current_id = {process_id},
                                              !.real_pid_map =
                                                  MapSet(b.real_pid_map, process_id, real_pid.n)]
                               ELSE b,
                               a.connector, a.os, a.ret)

\* ProcessBridge.attach_to_process(process_id, process_type)
BridgeAttach(b, c, host, procs, process_id, process_type, permitted, stops) ==
    CASE process_type = "simulated" -> BridgeAttachSimulated(b, c, host, procs, process_id)
      [] process_type = "real" -> BridgeAttachReal(b, c, host, process_id, permitted, stops)
      [] OTHER -> Attached(b, c, host, FALSE)

\* A detach_from_process that reports failure when nothing is attached
BridgeDetachStrict(b, c, host) ==
    IF ~HasCurrent(b) THEN Attached(b, c, host, FALSE)
    ELSE Attached([b EXCEPT !.current_type = {}, !.current_id = {}], c, host, TRUE)

\* ProcessBridge.detach_from_process()
BridgeDetach(b, c, host) ==
    IF ~HasCurrent(b) THEN Attached(b, c, host, TRUE)
    ELSE IF b.current_type = {"real"}
    THEN IF b.has_real_connector
         THEN LET d == ConnectorDetach(c, host)
              IN  Attached(IF d.ret THEN [b EXCEPT !.current_type = {}, !.current_id = {}]
                           ELSE b,
                           d.connector, d.os, d.ret)
         ELSE Attached(b, c, host, FALSE)
    ELSE Attached([b EXCEPT !.current_type = {}, !.current_id = {}], c, host, TRUE)

\* int.to_bytes(8, byteorder='little'): OverflowError for a negative int and
\* for one that needs more than 8 bytes; shifted[k] is value >> (8 * k).
ToBytes(value) ==
    LET shifted[k \in 0..8] == IF k = 0 THEN value ELSE shifted[k - 1] \div 256
    IN  IF value < 0 \/ shifted[8] # 0 THEN TypeError
        ELSE Computed([t |-> "bytes", n |-> 0, s |-> [k \in 1..8 |-> shifted[k - 1] % 256]])

\* The bytes read_memory makes of a stored value: to_bytes for an int,
\* struct.pack('<d', value) for a float (kept as the number it packs),
\* value.encode('utf-8') for a str (kept as its text).
ValueBytes(value) ==
    CASE value.t = "int" -> ToBytes(value.n)
      [] value.t = "float" -> Computed([t |-> "double", n |-> value.n, s |-> <<>>])
      [] OTHER -> Computed([t |-> "utf8", n |-> 0, s |-> value.s])

\* ProcessBridge.read_memory(address); `answer` is what the host's
\* /proc/<pid>/mem gives for a real target (None when it cannot be read).
BridgeReadMemory(b, c, procs, address, answer) ==
    LET addr_int == ParseInt16(address)
        pid == CHOOSE q \in b.current_id : TRUE
        addr_str == IF StartsWith(address, <<"0", "x">>) THEN address
                    ELSE <<"0", "x">> \o (IF addr_int.n < 0
                                          THEN <<"-">> \o NatDigits(0 - addr_int.n, 16)
                                          ELSE NatDigits(addr_int.n, 16))
    IN  CASE ~HasCurrent(b) -> Computed(PyNone)
          [] ~addr_int.ok -> Computed(PyNone)
          [] b.current_type = {"simulated"} ->
                IF pid \notin DOMAIN procs THEN Computed(PyNone)
                ELSE IF addr_str \notin DOMAIN procs[pid].memory THEN Computed(PyNone)
                ELSE IF procs[pid].memory[addr_str] = PyNone THEN Computed(PyNone)
                ELSE ValueBytes(procs[pid].memory[addr_str])
          [] b.current_type = {"real"} ->
                IF ~b.has_real_connector \/ ~CheckAttached(c) THEN Computed(PyNone)
                ELSE Computed(answer)
          [] OTHER -> Computed(PyNone)

\* ProcessBridge.write_memory(address, value, data_type); `answer` tells
\* whether the host's /proc/<pid>/mem takes the write of a real target.
BridgeWriteMemory(b, c, procs, address, value, data_type, answer) ==
    LET addr_int == ParseInt16(address)
        pid == CHOOSE q \in b.current_id : TRUE
        data == CASE data_type = "int" ->
                       LET i == IF value.t = "str" THEN ParseInt10(value.s)
                                ELSE [ok |-> ConvertInt(value).ok,
                                      n |-> ConvertInt(value).value.n]
                       IN  IF i.ok THEN ~ToBytes(i.n).raised ELSE FALSE
                  [] data_type = "float" -> ConvertFloat(value).ok
                  [] data_type = "string" -> TRUE
                  [] OTHER -> FALSE
    IN  CASE ~HasCurrent(b) -> Outcome(procs, FALSE)
          [] ~addr_int.ok -> Outcome(procs, FALSE)
          [] b.current_type = {"simulated"} -> WriteMemory(procs, pid, address, value)
          [] b.current_type = {"real"} ->
                IF ~b.has_real_connector THEN Outcome(procs, FALSE)
                ELSE Outcome(procs, data /\ CheckAttached(c) /\ answer)
          [] OTHER -> Outcome(procs, FALSE)

\* ProcessBridge.get_memory_map(); `answer` is the map sampled from the
\* regions of a real target.
BridgeGetMemoryMap(b, c, procs, answer) ==
    LET pid == CHOOSE q \in b.current_id : TRUE
    IN  CASE ~HasCurrent(b) -> EmptyMap
          [] b.current_type = {"simulated"} -> MemoryOf(procs, pid)
          [] b.current_type = {"real"} ->
                IF ~b.has_real_connector \/ ~CheckAttached(c) THEN EmptyMap ELSE answer
          [] OTHER -> EmptyMap

\* ProcessBridge.get_memory_regions(); `answer` is the list made of the
\* lines of /proc/<pid>/maps of a real target.
BridgeGetMemoryRegions(b, c, procs, answer) ==
    LET pid == CHOOSE q \in b.current_id : TRUE
    IN  CASE ~HasCurrent(b) -> <<>>
          [] b.current_type = {"simulated"} ->
                IF pid \notin DOMAIN procs THEN <<>>
                ELSE <<[base_address |-> <<"0", "x", "1", "0", "0", "0">>,
                        size |-> Cardinality(DOMAIN procs[pid].memory) * 8,
                        protection |-> <<"r", "w", "x">>,
                        type |-> "Simulated"]>>
          [] b.current_type = {"real"} ->
                IF ~b.has_real_connector \/ ~CheckAttached(c) THEN <<>> ELSE answer
          [] OTHER -> <<>>

\* ProcessBridge.get_process_info(); `answer` is what psutil tells of a
\* real target that is alive.
BridgeGetProcessInfo(b, procs, host, answer) ==
    LET pid == CHOOSE q \in b.current_id : TRUE
    IN  CASE ~HasCurrent(b) -> EmptyMap
          [] b.current_type = {"simulated"} ->
                IF pid \notin DOMAIN procs THEN EmptyMap
                ELSE [pid |-> procs[pid].pid, name |-> procs[pid].name, type |-> "simulated"]
          [] b.current_type = {"real"} ->
                IF ~b.has_real_connector \/ pid \notin DOMAIN b.real_pid_map
                   \/ b.real_pid_map[pid] = 0
                THEN EmptyMap
                ELSE IF b.real_pid_map[pid] \in host.alive THEN answer
                ELSE [error |-> "Process no longer exists"]
          [] OTHER -> EmptyMap

\* A query on the shared bridge returns: nothing but the record of the query
\* and of its result changes.
Asked(op, address, result) ==
    /\ ~run.active
    /\ qry' = [op |-> op, pid |-> address, value |-> result.value,
               data_type |-> "None", raised |-> result.raised]
    /\ prev' = processes
    /\ UNCHANGED <<processes, editor_pid, bridge, connector, os, run, executed, last, trail, android, requests>>

\* read_memory, get_memory_map, get_memory_regions and get_process_info as
\* calls on the shared bridge
ReadMemory(address, answer) ==
    Asked("read_memory", address,
          BridgeReadMemory(bridge, connector, processes, address, answer))

GetMemoryMap(answer) ==
    Asked("get_memory_map", <<>>,
          Computed(BridgeGetMemoryMap(bridge, connector, processes, answer)))

GetMemoryRegions(answer) ==
    Asked("get_memory_regions", <<>>,
          Computed(BridgeGetMemoryRegions(bridge, connector, processes, answer)))

GetProcessInfo(answer) ==
    Asked("get_process_info", <<>>,
          Computed(BridgeGetProcessInfo(bridge, processes, os, answer)))

\* write_memory as a call on the shared bridge
WriteBridgeMemory(address, value, data_type, answer) ==
    /\ ~run.active
    /\ LET w == BridgeWriteMemory(bridge, connector, processes,
                                  address, value, data_type, answer)
       IN  /\ processes' = w.procs
           /\ Returns([LogEntry("write_memory", address, address, value, w.ret, FALSE)
                          EXCEPT !.data_type = data_type, !.mem0 = EmptyMap])
    /\ UNCHANGED <<editor_pid, bridge, connector, os, run, executed, android, requests>>

\* attach_to_process as a call on the shared bridge
AttachToProcess(process_id, process_type, permitted, stops) ==
    /\ ~run.active
    /\ LET a == BridgeAttach(bridge, connector, os, processes,
                             process_id, process_type, permitted, stops)
       IN  /\ bridge' = a.bridge
           /\ connector' = a.connector
           /\ os' = a.os
           /\ Returns([LogEntry("attach", process_id, <<>>, PyNone, a.ret, FALSE)
                          EXCEPT !.mem0 = EmptyMap])
    /\ UNCHANGED <<processes, editor_pid, run, executed, android, requests>>

\* detach_from_process as a call on the shared bridge
DetachFromProcess ==
    /\ ~run.active
    /\ LET d == BridgeDetach(bridge, connector, os)
       IN  /\ bridge' = d.bridge
           /\ connector' = d.connector
           /\ os' = d.os
           /\ Returns([LogEntry("detach", <<>>, <<>>, PyNone, d.ret, FALSE)
                          EXCEPT !.mem0 = EmptyMap])
    /\ UNCHANGED <<processes, editor_pid, run, executed, android, requests>>

\* attach_to_process(pid) and detach_from_process() as calls on the
\* connector itself
RealAttach(pid, permitted, stops) ==
    /\ ~run.active
    /\ LET a == ConnectorAttach(connector, os, pid, permitted, stops)
       IN  /\ connector' = a.connector
           /\ os' = a.os
           /\ Returns(LogEntry("real_attach", FormatInt(pid), <<>>, PyInt(pid), a.ret, FALSE))
    /\ UNCHANGED <<processes, editor_pid, bridge, run, executed, android, requests>>

RealDetach ==
    /\ ~run.active
    /\ LET d == ConnectorDetach(connector, os)
       IN  /\ connector' = d.connector
           /\ os' = d.os
           /\ Returns(LogEntry("real_detach", <<>>, <<>>, PyNone, d.ret, FALSE))
    /\ UNCHANGED <<processes, editor_pid, bridge, run, executed, android, requests>>

\* A real process ends on its own: it is no longer alive nor traced.
ProcessExits(pid) ==
    /\ pid \in os.alive
    /\ os' = [alive |-> os.alive \ {pid}, traced |-> os.traced \ {pid}]
    /\ UNCHANGED <<processes, editor_pid, bridge, connector, run, executed, last, trail, qry, prev, android, requests>>

(***************************************************************************)
(* Request handlers of app.py on the shared process_bridge                 *)
(***************************************************************************)
\* A handler returns: the bridge, the connector and the host are as its last
\* bridge call (a) left them; ok tells whether it answered with success
Handled(op, process_id, a, ok) ==
    /\ bridge' = a.bridge
    /\ connector' = a.connector
    /\ os' = a.os
    /\ Returns([LogEntry(op, process_id, <<>>, PyNone, ok, FALSE) EXCEPT !.mem0 = EmptyMap])
    /\ UNCHANGED <<processes, editor_pid, run, executed, android, requests>>

\* view_real_process(process_id): attach, three queries, render
ViewRealProcess(process_id, permitted, stops) ==
    /\ ~run.active
    /\ \E a \in {BridgeAttach(bridge, connector, os, processes,
                               process_id, "real", permitted, stops)} :
          Handled("view_real_process", process_id, a, a.ret)

\* get_real_memory(process_id): attach, get_memory_map, detach
GetRealMemory(process_id, permitted, stops) ==
    /\ ~run.active
    /\ \E a \in {BridgeAttach(bridge, connector, os, processes,
                               process_id, "real", permitted, stops)} :
          Handled("get_real_memory", process_id,
                  IF a.ret THEN BridgeDetach(a.bridge, a.connector, a.os) ELSE a, a.ret)

\* view_real_memory(process_id) with the query arguments address ({} when
\* missing) and size; `answer` is what the host gives for the read
ViewRealMemory(process_id, address, size, permitted, stops, answer) ==
    /\ ~run.active
    /\ IF address = {} \/ size <= 0 \/ size > 4096
       THEN Handled("view_real_memory", process_id, Attached(bridge, connector, os, FALSE),
                    FALSE)
       ELSE \E a \in {BridgeAttach(bridge, connector, os, processes,
                                    process_id, "real", permitted, stops)} :
               IF ~a.ret THEN Handled("view_real_memory", process_id, a, FALSE)
               ELSE LET text == CHOOSE t \in address : TRUE
                        addr_value == IF StartsWith(text, <<"0", "x">>) THEN ParseInt16(text)
                                      ELSE ParseInt10(text)
                        memory_bytes ==
                            IF addr_value.ok
                            THEN BridgeReadMemory(a.bridge, a.connector, processes,
                                                  FormatInt(addr_value.n), answer)
                            ELSE TypeError
                    IN  Handled("view_real_memory", process_id,
                                BridgeDetach(a.bridge, a.connector, a.os),
                                /\ ~memory_bytes.raised
                                /\ memory_bytes.value # PyNone
                                /\ Len(memory_bytes.value.s) > 0)

\* The threads that serve requests at the same time
Handlers == {1, 2}

\* A handler between requests; `target` is what the bridge was attached to
\* when the handler wrote, `released` what it was attached to when the
\* handler called detach ({} for nothing)
NoRequest == [pc |-> "idle", pid |-> <<>>, target |-> {}, released |-> {}]

\* write_real_memory, up to the return of attach_to_process: 400 when it
\* fails
WriteRealMemoryAttach(h, process_id, permitted, stops) ==
    /\ ~run.active
    /\ requests[h].pc = "idle"
    /\ \E a \in {BridgeAttach(bridge, connector, os, processes,
                               process_id, "real", permitted, stops)} :
          /\ bridge' = a.bridge
          /\ connector' = a.connector
          /\ os' = a.os
          /\ requests' = [requests EXCEPT ![h] =
                             IF a.ret THEN [NoRequest EXCEPT !.pc = "attached",
                                                             !.pid = process_id]
                             ELSE NoRequest]
    /\ UNCHANGED <<processes, editor_pid, run, executed, last, trail, qry, prev, android>>

\* success = process_bridge.write_memory(address, value, data_type)
WriteRealMemoryWrite(h, address, value, data_type, answer) ==
    /\ ~run.active
    /\ requests[h].pc = "attached"
    /\ \E w \in {BridgeWriteMemory(bridge, connector, processes,
                                    address, value, data_type, answer)} :
          /\ processes' = w.procs
          /\ requests' = [requests EXCEPT ![h].pc = "written",
                                          ![h].target = IF HasCurrent(bridge)
                                                        THEN bridge.current_id ELSE {}]
    /\ UNCHANGED <<editor_pid, bridge, connector, os, run, executed,
                   last, trail, qry, prev, android>>

\* process_bridge.detach_from_process(), and the response
WriteRealMemoryDetach(h) ==
    /\ ~run.active
    /\ requests[h].pc = "written"
    /\ \E d \in {BridgeDetach(bridge, connector, os)} :
          /\ bridge' = d.bridge
          /\ connector' = d.connector
          /\ os' = d.os
          /\ requests' = [requests EXCEPT ![h].pc = "idle",
                                          ![h].released = IF HasCurrent(bridge) /\ d.ret
                                                          THEN bridge.current_id ELSE {}]
    /\ UNCHANGED <<processes, editor_pid, run, executed, last, trail, qry, prev, android>>

(***************************************************************************)
(* Initial states and inputs                                               *)
(***************************************************************************)
P1 == <<"a", "-", "1">>
P2 == <<"b", "-", "2">>
Pids == {P1, P2}

Addr1000 == Hex(4096)

\* {"0x1000": 42}
InitialMemory == [a \in {Addr1000} |-> PyInt(42)]

RealPids == {4321, 1}
NoHost == [alive |-> RealPids, traced |-> {}]

InitWith(procs) ==
    /\ processes = procs
    /\ editor_pid = {}
    /\ bridge = NewBridge(TRUE)
    /\ connector = NotAttached
    /\ os = NoHost
    /\ run = NoRun
    /\ executed = 0
    /\ last = NoCall
    /\ trail = NoTrail
    /\ qry = NoQuery
    /\ prev = procs
    /\ android = [connected |-> FALSE, current_pid |-> {}, device_id |-> {}]
    /\ requests = [h \in Handlers |-> NoRequest]

\* One process, created with memory {"0x1000": 42}
Init == InitWith([q \in {P1} |-> CreatedProcess("Calculator", P1, InitialMemory)])

(***************************************************************************)
(* Spec: an editing session on the simulated process                       *)
(***************************************************************************)
MaxHistory == 3

WriteAddrs == {Addr1000, Hex(-8)}
WriteValues == {PyInt(100), PyStr(<<"0", "x", "6", "4">>)}
ScanInputs == {<<PyInt(100), "int">>, <<PyStr(<<"4", "2">>), "int">>,
               <<PyStr(<<"0", "x", "6", "4">>), "string">>}
CallAddr == PyStr(Hex(MainAddr + 14))
RetAddr == PyStr(Hex(MainAddr + 34))

HistoryBelow(pid, bound) ==
    pid \in DOMAIN processes => Len(processes[pid].memory_history) < bound

Next ==
    \/ \E a \in WriteAddrs, v \in WriteValues, t \in TypedKinds :
          HistoryBelow(P1, MaxHistory) /\ WriteProcessMemory(P1, a, v, t)
    \/ WriteProcessMemory(P2, Addr1000, PyInt(100), "int")
    \/ \E pid \in Pids : UndoEdit(pid)
    \/ RedoEdit(P1)
    \/ \E pid \in Pids : ReadProcessMemory(pid)
    \/ \E i \in ScanInputs : ScanMemory(P1, i[1], i[2])

Spec == Init /\ [][Next]_vars

\* C1: on an existing process, a write whose value converts under int, float
\* or string returns true, and the memory view read right afterwards reports
\* the converted value at the written address.
WriteThenReadRoundTrip ==
    (/\ last.op = "write"
     /\ last.pid \in DOMAIN processes
     /\ last.data_type \in TypedKinds
     /\ last.val # PyNone)
    => /\ last.ok
       /\ last.addr \in DOMAIN MemoryView(processes[last.pid])
       /\ MemoryView(processes[last.pid])[last.addr].value = last.val

\* The int 100 written as a float at a new address, then read back
WriteThenReadWitness ==
    /\ last.op = "write" /\ last.ok /\ last.pid = P1
    /\ last.data_type = "float" /\ last.addr = Hex(-8)
    /\ last.val = PyFloat(100 * FloatScale)
    /\ qry.op = "read" /\ qry.pid = P1
    /\ MemoryView(processes[P1])[Hex(-8)].type = "float"

\* C2: a successful write followed at once by undo leaves the memory map
\* equal to the map as it was just before that write.
UndoRestoresMapBeforeWrite ==
    (last.op = "write" /\ last.ok)
    => UndoMemoryEdit(processes, last.pid).procs[last.pid].memory = last.mem0

\* C3: after write; undo, redo returns true and the memory map is again the
\* map the write produced.
RedoRestoresWrittenMap ==
    (/\ last.op = "undo" /\ last.ok
     /\ trail.before = [op |-> "write", pid |-> last.pid])
    => LET r == RedoMemoryEdit(processes, last.pid)
       IN  r.ret /\ r.procs[last.pid].memory = last.mem0

(***************************************************************************)
(* RunSpec: stepping and running through calls, returns and unmapped bytes *)
(***************************************************************************)
MaxSteps == 2
MaxFuel == 3

JumpAddrs == {CallAddr, RetAddr}

RunNext ==
    \/ \E v \in JumpAddrs : SetRegisterValue(P1, RIP, v)
    \/ executed < MaxFuel /\ StepInstruction(P1)
    \/ \E n \in 0..MaxSteps : executed + n <= MaxFuel /\ RunUntilBreakpoint(P1, n)
    \/ RunLoop

RunSpec == Init /\ [][RunNext]_vars /\ WF_vars(RunLoop)

(***************************************************************************)
(* BreakSpec: breakpoints and running into them                            *)
(***************************************************************************)
MaxHits == 2

BreakAddrs == {Hex(MainAddr), Hex(MainAddr + 3)}
BreakTypes == {"execution", "write"}

\* No breakpoint of the process was hit `bound` times yet
HitsBelow(pid, bound) ==
    \A a \in DOMAIN processes[pid].breakpoints :
        processes[pid].breakpoints[a].hit_count < bound

BreakNext ==
    \/ \E a \in BreakAddrs, t \in BreakTypes : SetBreakpoint(P1, a, t, NoCondition)
    \/ \E a \in BreakAddrs : RemoveBreakpoint(P1, a)
    \/ \E pid \in Pids, a \in BreakAddrs : ToggleBreakpoint(pid, a)
    \/ \E n \in 0..MaxSteps :
          /\ executed + n <= MaxFuel
          /\ HitsBelow(P1, MaxHits)
          /\ RunUntilBreakpoint(P1, n)
    \/ RunLoop

BreakSpec == Init /\ [][BreakNext]_vars

\* The memory map of a process created with {"0x1000": 42}
CreatedMemory == CreatedProcess(<<>>, P1, InitialMemory).memory

\* C5: a scan under int, float or string returns exactly the addresses of the
\* memory map whose value equals the converted search value, each once, and
\* changes neither the memory map nor the history; a value that a freshly
\* created process does not hold yields the empty list.
ScanIsExact ==
    (qry.op = "scan" /\ qry.pid \in DOMAIN processes /\ qry.data_type \in TypedKinds)
    => LET p == processes[qry.pid]
           c == ConvertForScan(qry.value, qry.data_type)
           found == ScanResult(p, qry.value, qry.data_type)
           held == {a \in DOMAIN p.memory : PyEq(p.memory[a], c.value)}
       IN  /\ c.ok => {found[i] : i \in DOMAIN found} = held
           /\ \A i, j \in DOMAIN found : found[i] = found[j] => i = j
           /\ p.memory = prev[qry.pid].memory
           /\ p.memory_history = prev[qry.pid].memory_history
           /\ p.history_position = prev[qry.pid].history_position
           /\ (last.op = "init" /\ c.ok /\ held = {}) => found = <<>>

\* A scan for 100 that finds it at both written addresses
ScanFindsTwoWitness ==
    /\ qry = [op |-> "scan", pid |-> P1, value |-> PyInt(100), data_type |-> "int"]
    /\ Len(ScanResult(processes[P1], qry.value, qry.data_type)) = 2

\* C9: on a process created with {"0x1000": 42}, writing 100 as int at 0x1000
\* succeeds and the cell reads 100; the undo that follows succeeds and the
\* cell reads 42; a scan for 100 as int after the undo returns the empty list.
WriteUndoScanScenario ==
    /\ (/\ trail.before.op = "init"
        /\ last.op = "write" /\ last.pid = P1 /\ last.addr = Addr1000
        /\ last.val = PyInt(100) /\ last.data_type = "int")
       => /\ last.ok
          /\ MemoryView(processes[P1])[Addr1000].value = PyInt(100)
    /\ (/\ trail.first /\ trail.before = [op |-> "write", pid |-> P1]
        /\ last.op = "undo" /\ last.pid = P1
        /\ last.mem0 = MapSet(CreatedMemory, Addr1000, PyInt(100)))
       => /\ last.ok
          /\ MemoryView(processes[P1])[Addr1000].value = PyInt(42)
          /\ ScanResult(processes[P1], PyInt(100), "int") = <<>>

\* The scenario run to its end: the scan for 100 after the undo
WriteUndoScanWitness ==
    /\ trail.first /\ trail.before = [op |-> "write", pid |-> P1]
    /\ last.op = "undo" /\ last.pid = P1 /\ last.ok
    /\ last.mem0 = MapSet(CreatedMemory, Addr1000, PyInt(100))
    /\ qry = [op |-> "scan", pid |-> P1, value |-> PyInt(100), data_type |-> "int"]

(***************************************************************************)
(* CapSpec: a history that grows to its cap                                *)
(***************************************************************************)
CapFuel == 1

CapNext ==
    \/ WriteProcessMemory(P1, Addr1000, PyInt(42), "int")
    \/ UndoEdit(P1)
    \/ RedoEdit(P1)
    \/ executed < CapFuel /\ StepInstruction(P1)
    \/ executed < CapFuel /\ RunUntilBreakpoint(P1, 1)
    \/ RunLoop

CapSpec == Init /\ [][CapNext]_vars

(***************************************************************************)
(* BridgeSpec: attaching the bridge to simulated and real processes        *)
(***************************************************************************)
AttachIds == {P1, FormatInt(4321), FormatInt(1), FormatInt(7), <<"x">>}
AttachTypes == {"simulated", "real", "android"}
ReadAddrs == {Addr1000, <<"z">>}

BridgeNext ==
    \/ \E id \in AttachIds, t \in AttachTypes \ {"real"} : AttachToProcess(id, t, TRUE, TRUE)
    \/ \E id \in AttachIds, permitted \in BOOLEAN, stops \in BOOLEAN :
          AttachToProcess(id, "real", permitted, stops)
    \/ DetachFromProcess
    \/ \E pid \in RealPids : ProcessExits(pid)
    \/ DeleteProcess(P1)
    \/ \E a \in ReadAddrs, answer \in {PyNone, ToBytes(0).value} : ReadMemory(a, answer)
    \/ \E answer \in {EmptyMap, InitialMemory} : GetMemoryMap(answer)
    \/ \E answer \in {<<>>, <<[base_address |-> Addr1000, size |-> 4096]>>} :
          GetMemoryRegions(answer)
    \/ GetProcessInfo([type |-> "real"])
    \/ \E answer \in BOOLEAN : WriteBridgeMemory(<<"z">>, PyInt(100), "int", answer)

BridgeSpec == Init /\ [][BridgeNext]_vars

(***************************************************************************)
(* TargetSpec: writes and reads through the bridge on a simulated target   *)
(***************************************************************************)
TargetNext ==
    \/ AttachToProcess(P1, "simulated", TRUE, TRUE)
    \/ DetachFromProcess
    \/ \E a \in {Addr1000, <<"1", "0", "0", "0">>}, v \in {PyInt(-1), PyInt(258)} :
          HistoryBelow(P1, MaxHistory) /\ WriteBridgeMemory(a, v, "int", TRUE)
    \/ \E a \in ReadAddrs : ReadMemory(a, PyNone)

TargetSpec == Init /\ [][TargetNext]_vars

(***************************************************************************)
(* WatchSpec: writes to addresses that hold breakpoints of every kind      *)
(***************************************************************************)
WatchNext ==
    \/ \E t \in {"execution", "write", "access", "read"} :
          SetBreakpoint(P1, Hex(MainAddr), t, NoCondition)
    \/ ToggleBreakpoint(P1, Hex(MainAddr))
    \/ \E a \in {Hex(MainAddr), Addr1000} :
          /\ HistoryBelow(P1, MaxHistory)
          /\ HitsBelow(P1, MaxHits)
          /\ WriteProcessMemory(P1, a, PyInt(100), "int")
    \/ executed < CapFuel /\ HitsBelow(P1, MaxHits) /\ RunUntilBreakpoint(P1, 1)
    \/ RunLoop

WatchSpec == Init /\ [][WatchNext]_vars

(***************************************************************************)
(* AndroidSpec: the Android connector and the listings adb prints          *)
(***************************************************************************)
MaxListed == 3

\* The header of "adb devices", and the lines it prints after it
ListHeader == <<<<"L", "i", "s", "t">>, <<"o", "f">>,
                <<"d", "e", "v", "i", "c", "e", "s">>,
                <<"a", "t", "t", "a", "c", "h", "e", "d">>>>
ListedLines ==
    {<<>>,
     <<<<"d", "e", "v", "i", "c", "e", "1", "2", "3">>, <<"d", "e", "v", "i", "c", "e">>>>,
     <<<<"e", "m", "u", "-", "1">>, <<"d", "e", "v", "i", "c", "e">>>>,
     <<<<"e", "m", "u", "-", "2">>, <<"o", "f", "f", "l", "i", "n", "e">>>>}

\* is_android_connected as a call on the Android connector
AndroidConnected(runs, stdout) ==
    /\ ~run.active
    /\ LET r == IsAndroidConnected(android, runs, stdout)
       IN  /\ android' = r.android
           /\ Returns([LogEntry("is_android_connected", <<>>, stdout, PyNone, r.ret, FALSE)
                          EXCEPT !.data_type = IF runs THEN "ran" ELSE "failed"])
    /\ UNCHANGED <<processes, editor_pid, bridge, connector, os, run, executed, requests>>

\* The header of "ps -e" and lines it prints: 8 columns, 9 columns and 7
\* columns
PsHeader == <<<<"U", "S", "E", "R">>, <<"P", "I", "D">>, <<"P", "P", "I", "D">>,
              <<"V", "S", "I", "Z", "E">>, <<"R", "S", "S">>,
              <<"W", "C", "H", "A", "N">>, <<"P", "C">>, <<"N", "A", "M", "E">>>>
PsLines ==
    {<<<<"r", "o", "o", "t">>, <<"1">>, <<"0">>, <<"9">>, <<"4">>, <<"w">>, <<"0">>,
       <<"i", "n", "i", "t">>>>,
     <<<<"s", "y", "s">>, <<"1", "2", "3">>, <<"1">>, <<"9">>, <<"6">>, <<"w">>, <<"0">>,
       <<"S">>, <<"s", "r", "v">>>>,
     <<<<"u", "0">>, <<"4", "5", "6">>, <<"1">>, <<"8">>, <<"4">>, <<"w">>, <<"c", "h">>>>}

\* Outputs of "adb devices": no device, one device
DeviceListings ==
    {<<ListHeader>>,
     <<ListHeader, <<<<"e", "m", "u", "-", "1">>, <<"d", "e", "v", "i", "c", "e">>>>>>}

\* Outputs of the id command: nothing, root, an app's uid, and a shell whose
\* effective uid is root
IdOutputs ==
    {<<>>,
     <<<<<<"u", "i", "d", "=", "0", "(", "r", "o", "o", "t", ")">>,
         <<"g", "i", "d", "=", "0", "(", "r", "o", "o", "t", ")">>>>>>,
     <<<<<<"u", "i", "d", "=", "1", "0", "1", "2", "3", "(", "u", "0", ")">>,
         <<"g", "i", "d", "=", "1", "0", "1", "2", "3", "(", "u", "0", ")">>>>>>,
     <<<<<<"u", "i", "d", "=", "2", "0", "0", "0">>, <<"g", "i", "d", "=", "0">>,
         <<"e", "u", "i", "d", "=", "0">>>>>>}

\* list_processes as a call on the Android connector: the entry's val holds
\* the returned list and what the two adb commands did
AndroidListProcesses(runs, devices, ps_runs, stdout) ==
    /\ ~run.active
    /\ LET r == ListProcesses(android, runs, devices, ps_runs, stdout)
       IN  /\ android' = r.android
           /\ Returns(LogEntry("list_processes", <<>>, stdout,
                               [entries |-> r.ret, listed |-> ps_runs,
                                connected |-> IsAndroidConnected(android, runs, devices).ret],
                               TRUE, FALSE))
    /\ UNCHANGED <<processes, editor_pid, bridge, connector, os, run, executed, requests>>

\* is_device_rooted as a call on the Android connector
AndroidDeviceRooted(runs, devices, stdout) ==
    /\ ~run.active
    /\ LET r == IsDeviceRooted(android, runs, devices, stdout)
       IN  /\ android' = r.android
           /\ Returns(LogEntry("is_device_rooted", <<>>, stdout,
                               [connected |-> IsAndroidConnected(android, runs, devices).ret],
                               r.ret, FALSE))
    /\ UNCHANGED <<processes, editor_pid, bridge, connector, os, run, executed, requests>>

AndroidNext ==
    \E runs \in BOOLEAN, n \in 0..MaxListed : \E listed \in [1..n -> ListedLines] :
        AndroidConnected(runs, <<ListHeader>> \o listed)

AndroidSpec == Init /\ [][AndroidNext]_vars

(***************************************************************************)
(* DeviceSpec: the process listing and the root check of an Android device *)
(***************************************************************************)
DeviceNext ==
    \/ \E devices \in DeviceListings, n \in 0..MaxListed : \E listed \in [1..n -> PsLines] :
          AndroidListProcesses(TRUE, devices, TRUE, <<PsHeader>> \o listed)
    \/ \E devices \in DeviceListings, runs \in BOOLEAN, line \in PsLines :
          AndroidListProcesses(runs, devices, FALSE, <<PsHeader, line>>)
    \/ \E devices \in DeviceListings, line \in PsLines :
          AndroidListProcesses(FALSE, devices, TRUE, <<PsHeader, line>>)
    \/ \E runs \in BOOLEAN, devices \in DeviceListings, stdout \in IdOutputs :
          AndroidDeviceRooted(runs, devices, stdout)

DeviceSpec == Init /\ [][DeviceNext]_vars

(***************************************************************************)
(* StackSpec: breakpoints on the stack cell that the seeded call writes    *)
(***************************************************************************)
StackNext ==
    \/ \E t \in {"write", "access"} : SetBreakpoint(P1, Hex(-8), t, NoCondition)
    \/ ToggleBreakpoint(P1, Hex(-8))
    \/ SetRegisterValue(P1, RIP, CallAddr)
    \/ /\ HistoryBelow(P1, MaxHistory)
       /\ HitsBelow(P1, MaxHits)
       /\ WriteProcessMemory(P1, Hex(-8), PyInt(100), "int")
    \/ executed < MaxSteps /\ StepInstruction(P1)
    \/ executed < CapFuel /\ RunUntilBreakpoint(P1, 1)
    \/ RunLoop

StackSpec == Init /\ [][StackNext]_vars

(***************************************************************************)
(* RejectSpec: writes of values and under types that the editor rejects    *)
(***************************************************************************)
RejectValues == {PyInt(7), PyStr(<<"z">>), PyNone, PyList}
RejectTypes == {"int", "float", "string", "bytes", "double"}

RejectNext ==
    \/ \E v \in RejectValues, t \in RejectTypes :
          HistoryBelow(P1, MaxHistory) /\ WriteProcessMemory(P1, Addr1000, v, t)
    \/ \E v \in RejectValues : WriteProcessMemory(P2, Addr1000, v, "int")
    \/ UndoEdit(P1)
    \/ RedoEdit(P1)

RejectSpec == Init /\ [][RejectNext]_vars

(***************************************************************************)
(* FullSpec: a history filled to its limit, with undo once it is full      *)
(***************************************************************************)
FullNext ==
    \/ HistoryBelow(P1, MaxHistory) /\ WriteProcessMemory(P1, Addr1000, PyInt(100), "int")
    \/ WriteProcessMemory(P1, Addr1000, PyInt(42), "int")
    \/ Len(processes[P1].memory_history) = HistoryLimit /\ UndoEdit(P1)

FullSpec == Init /\ [][FullNext]_vars

(***************************************************************************)
(* ConnectorSpec: the Linux connector used on its own                      *)
(***************************************************************************)
ConnectorNext ==
    \/ \E pid \in RealPids \cup {7}, permitted \in BOOLEAN, stops \in BOOLEAN :
          RealAttach(pid, permitted, stops)
    \/ RealDetach
    \/ \E pid \in RealPids : ProcessExits(pid)

ConnectorSpec == Init /\ [][ConnectorNext]_vars

(***************************************************************************)
(* JumpSpec: an instruction store with jumps to a name no symbol has       *)
(***************************************************************************)
\* Instructions as _generate_sample_code builds them (address, opcode,
\* operands, encoding), put where the sample leaves the store empty: jmp and
\* je to the name nowhere, a jmp to the symbol main, and the nop that follows
JumpInstructions ==
    <<Instruction(Hex(CalculateAddr), "jmp", <<<<"n", "o", "w", "h", "e", "r", "e">>>>,
                  <<"e9", "00", "00", "00", "00">>),
      Instruction(Hex(CalculateAddr + 5), "je", <<<<"n", "o", "w", "h", "e", "r", "e">>>>,
                  <<"0f", "84", "00", "00", "00", "00">>),
      Instruction(Hex(CalculateAddr + 11), "jmp", <<SampleFunctions[1][1]>>,
                  <<"e9", "00", "00", "00", "00">>),
      Instruction(Hex(CalculateAddr + 16), "nop", <<>>, <<"90">>)>>

\* process.instructions[addr] = Instruction(...) for each of `instrs`
LoadInstructions(p, instrs) ==
    [p EXCEPT !.instructions =
        [a \in DOMAIN p.instructions \cup {instrs[i].address : i \in 1..Len(instrs)} |->
            IF \E i \in 1..Len(instrs) : instrs[i].address = a
            THEN instrs[CHOOSE i \in 1..Len(instrs) : instrs[i].address = a]
            ELSE p.instructions[a]]]

JumpNext ==
    \/ \E i \in 1..Len(JumpInstructions) :
          SetRegisterValue(P1, RIP, PyStr(JumpInstructions[i].address))
    \/ \E z \in 0..1 : SetRegisterValue(P1, ZF, PyInt(z))
    \/ executed < MaxFuel /\ StepInstruction(P1)
    \/ \E n \in 1..MaxSteps : executed + n <= MaxFuel /\ RunUntilBreakpoint(P1, n)
    \/ RunLoop

\* The created process with JumpInstructions in its store
JumpSpec ==
    /\ InitWith([q \in {P1} |->
                   LoadInstructions(CreatedProcess("Calculator", P1, InitialMemory),
                                    JumpInstructions)])
    /\ [][JumpNext]_vars

(***************************************************************************)
(* HaltSpec: runs that arrive at a breakpoint of any kind, on or off       *)
(***************************************************************************)
HaltNext ==
    \/ \E t \in {"execution", "read", "write", "access"} :
          SetBreakpoint(P1, Hex(MainAddr + 3), t, NoCondition)
    \/ ToggleBreakpoint(P1, Hex(MainAddr + 3))
    \/ \E n \in 1..MaxSteps :
          /\ executed + n <= MaxFuel
          /\ HitsBelow(P1, MaxHits)
          /\ RunUntilBreakpoint(P1, n)
    \/ RunLoop

HaltSpec == Init /\ [][HaltNext]_vars

(***************************************************************************)
(* CondSpec: breakpoints set with and without a condition string            *)
(***************************************************************************)
Conditions == {NoCondition, "rax == 1"}

CondNext ==
    \/ \E c \in Conditions :
          \/ SetBreakpoint(P1, Hex(MainAddr + 3), "execution", c)
          \/ SetBreakpoint(P1, Addr1000, "write", c)
    \/ ToggleBreakpoint(P1, Hex(MainAddr + 3))
    \/ /\ HistoryBelow(P1, MaxHistory) /\ HitsBelow(P1, MaxHits)
       /\ WriteProcessMemory(P1, Addr1000, PyInt(100), "int")
    \/ /\ executed + MaxSteps <= MaxFuel /\ HitsBelow(P1, MaxHits)
       /\ RunUntilBreakpoint(P1, MaxSteps)
    \/ RunLoop

CondSpec == Init /\ [][CondNext]_vars

\* The process table with the condition of every breakpoint replaced by c
Recondition(procs, c) ==
    [pid \in DOMAIN procs |->
        [procs[pid] EXCEPT !.breakpoints =
            [a \in DOMAIN procs[pid].breakpoints |->
                [procs[pid].breakpoints[a] EXCEPT !.condition = c]]]]

\* Two process tables that differ in condition strings at most
SameButConditions(a, b) == Recondition(a, NoCondition) = Recondition(b, NoCondition)

(***************************************************************************)
(* ListSpec: instruction listings around and behind the stored program     *)
(***************************************************************************)
MaxCount == 2

ListNext ==
    \/ \E a \in {Hex(MainAddr + 29), Hex(MainAddr + 34)} :
          SetRegisterValue(P1, RIP, PyStr(a))
    \/ executed < MaxSteps /\ StepInstruction(P1)
    \/ \E pid \in Pids, count \in 0..MaxCount,
          start \in {{}, {Hex(MainAddr)}, {Hex(MainAddr + 30)}, {Hex(MainAddr + 35)}} :
          GetProcessInstructions(pid, start, count)

ListSpec == Init /\ [][ListNext]_vars

(***************************************************************************)
(* FrameSpec: undo and redo on a process with breakpoints and moved        *)
(* registers                                                               *)
(***************************************************************************)
FrameNext ==
    \/ SetBreakpoint(P1, Addr1000, "write", NoCondition)
    \/ ToggleBreakpoint(P1, Addr1000)
    \/ \E v \in {PyInt(100), PyInt(7)} :
          /\ HistoryBelow(P1, MaxHistory) /\ HitsBelow(P1, MaxHits)
          /\ WriteProcessMemory(P1, Addr1000, v, "int")
    \/ executed < MaxSteps /\ StepInstruction(P1)
    \/ \E pid \in Pids : UndoEdit(pid)
    \/ \E pid \in Pids : RedoEdit(pid)

FrameSpec == Init /\ [][FrameNext]_vars

(***************************************************************************)
(* StepSpec: steps over addresses that hold breakpoints                    *)
(***************************************************************************)
StepNext ==
    \/ \E a \in {Hex(MainAddr), Hex(MainAddr + 3)} :
          SetBreakpoint(P1, a, "execution", NoCondition)
    \/ SetBreakpoint(P1, Hex(-8), "write", NoCondition)
    \/ \E a \in {Hex(MainAddr), Hex(-8)} : ToggleBreakpoint(P1, a)
    \/ SetRegisterValue(P1, RIP, CallAddr)
    \/ HistoryBelow(P1, MaxHistory) /\ WriteProcessMemory(P1, Addr1000, PyInt(100), "int")
    \/ \E pid \in Pids : executed < MaxSteps /\ StepInstruction(pid)

StepSpec == Init /\ [][StepNext]_vars

(***************************************************************************)
(* CellSpec: bridge writes and reads at the same address string            *)
(***************************************************************************)
\* Address strings that int(address, 16) accepts: with and without the 0x
\* prefix, digits and prefix in either case
CellAddrs == {Addr1000, <<"1", "0", "0", "0">>, <<"0", "x", "A", "b">>,
              <<"0", "X", "1", "0", "0", "0">>}

CellNext ==
    \/ AttachToProcess(P1, "simulated", TRUE, TRUE)
    \/ DetachFromProcess
    \/ \E a \in CellAddrs :
          HistoryBelow(P1, MaxHistory) /\ WriteBridgeMemory(a, PyInt(258), "int", TRUE)
    \/ \E a \in CellAddrs : ReadMemory(a, PyNone)

CellSpec == Init /\ [][CellNext]_vars

(***************************************************************************)
(* ServeSpec: requests for real processes, one handler at a time           *)
(***************************************************************************)
RealIds == {FormatInt(4321), FormatInt(7)}

ServeNext ==
    \/ \E id \in RealIds, permitted \in BOOLEAN, stops \in BOOLEAN :
          ViewRealProcess(id, permitted, stops)
    \/ \E id \in RealIds, permitted \in BOOLEAN, stops \in BOOLEAN :
          GetRealMemory(id, permitted, stops)
    \/ \E id \in RealIds, address \in {{}, {<<"0", "x", "1", "0">>}, {<<"z">>}},
          size \in {0, 64}, answer \in {PyNone, ToBytes(0).value} :
          ViewRealMemory(id, address, size, TRUE, TRUE, answer)
    \/ \E pid \in RealPids : ProcessExits(pid)

ServeSpec == Init /\ [][ServeNext]_vars

(***************************************************************************)
(* ShareSpec: two write_real_memory requests served at the same time       *)
(***************************************************************************)
ShareNext ==
    \/ \E h \in Handlers, pid \in RealPids, permitted \in BOOLEAN :
          WriteRealMemoryAttach(h, FormatInt(pid), permitted, TRUE)
    \/ \E h \in Handlers, answer \in BOOLEAN :
          WriteRealMemoryWrite(h, <<"0", "x", "1", "0">>, PyInt(5), "int", answer)
    \/ \E h \in Handlers : WriteRealMemoryDetach(h)
    \/ \E pid \in RealPids : ProcessExits(pid)

ShareSpec == Init /\ [][ShareNext]_vars

\* `prev` is the process table as it was when the call of `last` began
PrevIsCallStart == qry.op = "none"

\* C6: run_until_breakpoint terminates from every state (a jump or return
\* that stays in place, an unmapped address) and executes at most max_steps
\* instructions, the advance through an unmapped byte counting as one.
RunTerminatesWithinMaxSteps ==
    /\ [](run.count <= run.max_steps)
    /\ (run.active ~> ~run.active)

\* A run of 2 steps that returned with rip on the ret it could not leave
RunOnStuckReturnWitness ==
    /\ ~run.active /\ last.op = "run" /\ last.ok
    /\ run.count = 2 /\ run.max_steps = 2
    /\ processes[P1].registers[RIP] = PyInt(MainAddr + 34)
    /\ processes[P1].registers[RSP] = PyInt(0)

\* C7: a run with max_steps >= 1 called while an enabled execution breakpoint
\* sits at rip returns true, adds exactly 1 to that breakpoint's hit count and
\* leaves all registers and the memory map as they were; on a fresh process
\* with a breakpoint at the initial rip the hit count becomes 1.
RunStopsAtBreakpointAtRip ==
    (/\ last.op = "run" /\ ~run.active /\ PrevIsCallStart
     /\ last.pid \in DOMAIN prev /\ last.val.n >= 1
     /\ prev[last.pid].registers[RIP].t = "int"
     /\ ExecutionBreakpointAt(prev[last.pid], Hex(prev[last.pid].registers[RIP].n)))
    => LET p0 == prev[last.pid]
           p == processes[last.pid]
           at == Hex(p0.registers[RIP].n)
       IN  /\ last.ok /\ ~last.raised
           /\ p.breakpoints[at].hit_count = p0.breakpoints[at].hit_count + 1
           /\ p.registers = p0.registers
           /\ p.memory = p0.memory
           /\ (trail.first /\ at = Hex(MainAddr)) => p.breakpoints[at].hit_count = 1

\* A run that began on the breakpoint at main+3, reached by an earlier run
RunStopsAtBreakpointWitness ==
    /\ last.op = "run" /\ ~run.active /\ PrevIsCallStart /\ last.ok
    /\ last.val = PyInt(2)
    /\ prev[P1].registers[RIP] = PyInt(MainAddr + 3)
    /\ ExecutionBreakpointAt(prev[P1], Hex(MainAddr + 3))
    /\ processes[P1].breakpoints[Hex(MainAddr + 3)].hit_count = 2

\* C8: toggle on an existing breakpoint returns (true, new state) with the
\* enabled flag negated and kind, condition and hit count as they were, and a
\* second toggle restores the breakpoint; toggle where there is no breakpoint
\* returns (false, false) and changes nothing.
ToggleNegatesEnabledOnly ==
    (last.op = "toggle_breakpoint" /\ PrevIsCallStart)
    => IF last.pid \in DOMAIN prev /\ last.addr \in DOMAIN prev[last.pid].breakpoints
       THEN LET b0 == prev[last.pid].breakpoints[last.addr]
                b == processes[last.pid].breakpoints[last.addr]
                again == ToggleBreakpointAt(processes, last.pid, last.addr)
            IN  /\ last.ok
                /\ last.val = PyInt(IF b.enabled THEN 1 ELSE 0)
                /\ b.enabled = ~b0.enabled
                /\ b.type = b0.type
                /\ b.condition = b0.condition
                /\ b.hit_count = b0.hit_count
                /\ again.ret = <<TRUE, b0.enabled>>
                /\ again.procs[last.pid].breakpoints[last.addr] = b0
       ELSE /\ ~last.ok
            /\ last.val = PyInt(0)
            /\ processes = prev

\* A breakpoint that was hit once, toggled off
ToggleHitBreakpointWitness ==
    /\ last.op = "toggle_breakpoint" /\ PrevIsCallStart /\ last.ok
    /\ last.pid = P1 /\ last.addr = Hex(MainAddr)
    /\ prev[P1].breakpoints[Hex(MainAddr)].enabled
    /\ processes[P1].breakpoints[Hex(MainAddr)] =
          [Breakpoint(Hex(MainAddr), "execution", NoCondition)
              EXCEPT !.enabled = FALSE, !.hit_count = 1]

\* C4: in every reachable state of a created process,
\* 0 <= history_position < len(memory_history) <= 50.
CursorWithinHistory ==
    \A pid \in DOMAIN processes :
        /\ 0 <= processes[pid].history_position
        /\ processes[pid].history_position < Len(processes[pid].memory_history)
        /\ Len(processes[pid].memory_history) <= HistoryLimit

\* A write into a full history: the oldest entry was dropped
WriteAtCapWitness ==
    /\ last.op = "write" /\ last.ok /\ PrevIsCallStart
    /\ Len(prev[P1].memory_history) = HistoryLimit
    /\ Len(processes[P1].memory_history) = HistoryLimit
    /\ processes[P1].history_position = HistoryLimit - 1

\* C10: whenever attach_to_process returns false, the bridge has no current
\* target afterwards: current_type and current_id are both None.
FailedAttachClearsTarget ==
    (last.op = "attach" /\ ~last.ok)
    => (bridge.current_type = {} /\ bridge.current_id = {})

\* C11: whenever attach_to_process returns true while the current target was
\* a real process, the host traces afterwards no process for this program
\* but the newly attached real one (none if the new target is simulated), and
\* the bridge records exactly one current type and one current id.
AttachAfterRealLeavesOneTarget ==
    (/\ last.op = "attach" /\ last.ok
     /\ last.target0[1] = {"real"} /\ last.target0[2] # {})
    => /\ os.traced \subseteq (IF bridge.current_type = {"real"}
                               THEN {ParseInt10(last.pid).n} ELSE {})
       /\ Cardinality(bridge.current_type) = 1
       /\ Cardinality(bridge.current_id) = 1

\* C12: while the bridge has no current target, read_memory returns None,
\* write_memory returns False, get_memory_map, get_memory_regions and
\* get_process_info return their empty results and detach_from_process
\* returns True; none of them raises and none changes the simulator, the
\* editor, the bridge, the connector or the host.
NoTargetCallsAreEmpty ==
    [][(/\ ~HasCurrent(bridge)
        /\ \/ qry' # qry /\ qry'.op \in {"read_memory", "get_memory_map",
                                          "get_memory_regions", "get_process_info"}
           \/ /\ last'.op \in {"write_memory", "detach"}
              /\ qry' = NoQuery
              /\ (last' # last \/ trail' # trail \/ qry # NoQuery))
       => /\ UNCHANGED <<processes, editor_pid, bridge, connector, os, run, executed, requests>>
          /\ qry' # NoQuery =>
                /\ ~qry'.raised
                /\ IF qry'.op = "read_memory" THEN qry'.value = PyNone
                   ELSE DOMAIN qry'.value = {}
          /\ qry' = NoQuery => (~last'.raised /\ last'.ok = (last'.op = "detach"))]_vars

\* The first call was an attach to a real pid that does not exist, it
\* returned False, and get_memory_regions then returned the empty list.
NoTargetAfterFailedAttachWitness ==
    /\ last.op = "attach" /\ ~last.ok /\ trail.before.op = "init"
    /\ ParseInt10(last.pid).ok /\ ParseInt10(last.pid).n \notin RealPids
    /\ ~HasCurrent(bridge)
    /\ qry.op = "get_memory_regions" /\ qry.value = <<>>

\* C13: whenever the connector's attach_to_process returns False, the host
\* does not trace the process it was asked to attach and the connector
\* records no attached pid and no handle.
FailedRealAttachLeavesNothing ==
    (last.op = "real_attach" /\ ~last.ok)
    => (last.val.n \notin os.traced /\ connector = NotAttached)

\* C14: after the connector's detach_from_process returned, the host traces
\* no process for the connector and the connector records no attached pid.
RealDetachReleases ==
    last.op = "real_detach" => (os.traced = {} /\ connector.attached_pid = {})

\* C15: when delete_process(p) succeeded while the bridge's current target
\* was the simulated process p, the next query on the bridge returns its
\* empty result without raising and the bridge has no current target then.
DeletedTargetDetachesOnNextUse ==
    (/\ last.op = "delete" /\ last.ok
     /\ last.target0 = <<{"simulated"}, {last.pid}>>
     /\ qry.op \in {"read_memory", "get_memory_map",
                    "get_memory_regions", "get_process_info"})
    => /\ ~qry.raised
       /\ IF qry.op = "read_memory" THEN qry.value = PyNone ELSE DOMAIN qry.value = {}
       /\ ~HasCurrent(bridge)

\* C16: whenever a write, a step or a run has changed the memory map of a
\* process, the map as it was before the call has been appended to the edit
\* history: it is the snapshot under the cursor.
MemoryChangeIsRecorded ==
    (/\ last.op \in {"write", "step", "run"} /\ ~run.active /\ PrevIsCallStart
     /\ last.pid \in DOMAIN prev /\ last.pid \in DOMAIN processes
     /\ processes[last.pid].memory # prev[last.pid].memory)
    => LET p == processes[last.pid]
       IN  /\ p.memory_history # prev[last.pid].memory_history
           /\ p.memory_history[p.history_position + 1] = prev[last.pid].memory

\* C18: when step_instruction executed an instruction that is no jmp, call
\* or ret and no je with the zero flag set, the instruction pointer is the
\* instruction's address plus the number of bytes of its encoding; one step
\* of a freshly created process leads from main to main + 7.
StepAdvancesByEncodedLength ==
    (/\ last.op = "step" /\ last.ok /\ PrevIsCallStart
     /\ Hex(prev[last.pid].registers[RIP].n) \in DOMAIN prev[last.pid].instructions)
    => LET before == prev[last.pid]
           instr == before.instructions[Hex(before.registers[RIP].n)]
       IN  /\ (/\ instr.opcode \notin {"jmp", "call", "ret"}
               /\ instr.opcode = "je" => ~PyEq(before.registers[ZF], PyInt(1)))
              => processes[last.pid].registers[RIP]
                     = PyInt(before.registers[RIP].n + Len(instr.bytes))
           /\ (trail.before.op = "init" /\ before.registers[RIP] = PyInt(MainAddr))
              => processes[last.pid].registers[RIP] = PyInt(MainAddr + 7)

\* C17: when write_memory(a, v, "int") returned True for an int v on a
\* simulated target, a following read_memory(a) does not raise and returns
\* the 8 bytes of v in little-endian order (byte k is v >> 8k, modulo 256).
BridgeReadsBackEightBytes ==
    (/\ last.op = "write_memory" /\ last.ok
     /\ last.val.t = "int" /\ last.data_type = "int"
     /\ last.target0[1] = {"simulated"}
     /\ qry.op = "read_memory" /\ qry.pid = last.addr)
    => LET shifted[k \in 0..8] == IF k = 0 THEN last.val.n ELSE shifted[k - 1] \div 256
       IN  /\ ~qry.raised
           /\ qry.value.t = "bytes"
           /\ qry.value.s = [k \in 1..8 |-> shifted[k - 1] % 256]

\* C19: a write_process_memory of a convertible value to an address that
\* holds a breakpoint returns True and stores the value; the breakpoint's
\* hit_count grows by one if it was enabled and of type write or access, and
\* stays as it was otherwise; a breakpoint of type read never has a hit.
WriteFiresWriteAndAccessOnly ==
    /\ (/\ last.op = "write" /\ last.val # PyNone /\ PrevIsCallStart
        /\ last.pid \in DOMAIN prev
        /\ last.addr \in DOMAIN prev[last.pid].breakpoints)
       => LET was == prev[last.pid].breakpoints[last.addr]
              now == processes[last.pid].breakpoints[last.addr]
          IN  /\ last.ok
              /\ processes[last.pid].memory[last.addr] = last.val
              /\ now.hit_count = IF was.enabled /\ was.type \in {"write", "access"}
                                 THEN was.hit_count + 1 ELSE was.hit_count
    /\ \A pid \in DOMAIN processes : \A a \in DOMAIN processes[pid].breakpoints :
          processes[pid].breakpoints[a].type = "read"
          => processes[pid].breakpoints[a].hit_count = 0

\* A write to an address with an enabled access breakpoint that had fired
\* once before
WriteFiresAccessWitness ==
    /\ last.op = "write" /\ last.ok /\ PrevIsCallStart
    /\ last.addr \in DOMAIN prev[P1].breakpoints
    /\ prev[P1].breakpoints[last.addr].type = "access"
    /\ prev[P1].breakpoints[last.addr].enabled
    /\ prev[P1].breakpoints[last.addr].hit_count = 1
    /\ processes[P1].breakpoints[last.addr].hit_count = 2

\* C20: is_android_connected returns True and records the first word of the
\* first device line (a line that is not blank and mentions device) when the
\* listing has such a line after its header; it returns False when nothing
\* but the header is listed and when adb could not be run.
AdbListingIsDetected ==
    last.op = "is_android_connected"
    => LET listed == Drop(last.addr, 1)
           devices == {i \in 1..Len(listed) :
                          \E w \in 1..Len(listed[i]) : \E k \in 1..(Len(listed[i][w]) - 5) :
                              SubSeq(listed[i][w], k, k + 5) = <<"d", "e", "v", "i", "c", "e">>}
       IN  /\ (last.data_type = "ran" /\ devices # {})
              => /\ last.ok
                 /\ \E i \in devices : /\ \A j \in devices : i <= j
                                       /\ android.device_id = {listed[i][1]}
           /\ (\A i \in 1..Len(listed) : listed[i] = <<>>) => ~last.ok
           /\ last.data_type = "failed" => ~last.ok

\* A listing whose first line after the header is offline and whose second
\* and third are devices: the second line's id is recorded
AdbSecondLineWitness ==
    /\ last.op = "is_android_connected" /\ last.ok /\ Len(last.addr) = 4
    /\ ~Mentions(last.addr[2], <<"d", "e", "v", "i", "c", "e">>)
    /\ Mentions(last.addr[3], <<"d", "e", "v", "i", "c", "e">>)
    /\ Mentions(last.addr[4], <<"d", "e", "v", "i", "c", "e">>)
    /\ last.addr[3][1] # last.addr[4][1]
    /\ android.device_id = {last.addr[3][1]}

\* C21: list_processes returns, in listing order, one entry for every line
\* after the header of the process listing that has at least 8 columns, its
\* pid the second column and its name the last; it returns the empty list
\* when no device is connected and when the listing command fails.
ListedProcessesAreTheFullLines ==
    last.op = "list_processes"
    => LET lines == Drop(last.addr, 1)
           full == {i \in 1..Len(lines) : Len(lines[i]) >= 8}
           entries == last.val.entries
       IN  IF last.val.connected /\ last.val.listed
           THEN /\ Len(entries) = Cardinality(full)
                /\ \A i \in full :
                      LET k == Cardinality({j \in full : j <= i})
                      IN  /\ entries[k].pid = lines[i][2]
                          /\ entries[k].name = lines[i][Len(lines[i])]
           ELSE entries = <<>>

\* A listing of a 7-column line between a 9-column and an 8-column line
\* gave two entries, in that order
ListedAroundShortLineWitness ==
    /\ last.op = "list_processes" /\ Len(last.addr) = 4
    /\ Len(last.addr[2]) = 9 /\ Len(last.addr[3]) = 7 /\ Len(last.addr[4]) = 8
    /\ Len(last.val.entries) = 2
    /\ last.val.entries[1].name = <<"s", "r", "v">>
    /\ last.val.entries[2].pid = <<"1">>

\* C22: is_device_rooted returns True exactly when a device is connected and
\* the output of the id command contains uid=0; for uid=10123 it returns
\* False.
RootedIffConnectedAndUidZero ==
    last.op = "is_device_rooted"
    => LET words == UNION {{last.addr[i][w] : w \in 1..Len(last.addr[i])} :
                             i \in 1..Len(last.addr)}
           holds(word, text) == \E k \in 1..(Len(word) - Len(text) + 1) :
                                    SubSeq(word, k, k + Len(text) - 1) = text
           zero == \E word \in words : holds(word, <<"u", "i", "d", "=", "0">>)
       IN  /\ last.ok = (last.val.connected /\ zero)
           /\ (\E word \in words : holds(word, <<"u", "i", "d", "=", "1", "0", "1", "2", "3">>))
              => ~last.ok

\* On a connected device the id command reported uid=0(root)
RootedDeviceWitness ==
    /\ last.op = "is_device_rooted" /\ last.ok /\ last.val.connected
    /\ android.device_id = {<<"e", "m", "u", "-", "1">>}
    /\ last.addr[1][1][1] = "u"

\* C23: whenever write_process_memory, a step or a run of one instruction
\* has written a memory cell (the written address, the destination of a mov
\* to memory, the cell under the new stack pointer of a call), an enabled
\* breakpoint of type write or access at that cell has one more hit.
EveryWriteChecksBreakpoints ==
    (/\ last.op \in {"write", "step", "run"} /\ ~run.active /\ PrevIsCallStart
     /\ last.pid \in DOMAIN prev /\ last.pid \in DOMAIN processes
     /\ ~last.raised /\ last.ok
     /\ last.op = "run" => run.count = 1)
    => LET before == prev[last.pid]
           at == Hex(before.registers[RIP].n)
           instr == before.instructions[at]
           cells == IF last.op = "write" THEN {last.addr}
                    ELSE IF at \notin DOMAIN before.instructions THEN {}
                    ELSE IF instr.opcode = "call" THEN {Hex(before.registers[RSP].n - 8)}
                    ELSE IF instr.opcode = "mov" /\ instr.operands[1] \notin RegisterNames
                    THEN {instr.operands[1]}
                    ELSE {}
       IN  \A a \in cells \cap DOMAIN before.breakpoints :
               (before.breakpoints[a].enabled /\ before.breakpoints[a].type \in {"write", "access"})
               => processes[last.pid].breakpoints[a].hit_count
                      = before.breakpoints[a].hit_count + 1

\* C27: a write_process_memory to a process id that does not exist, under a
\* type other than int, float, string and bytes, or of a value that the type
\* cannot take (None or a list as a number, a text with a z in it as a number
\* or as bytes) returns False without raising, and leaves every process as
\* it was: memory map, history and cursor.
RejectedWriteChangesNothing ==
    (/\ last.op = "write" /\ PrevIsCallStart
     /\ \/ last.pid \notin DOMAIN prev
        \/ last.data_type \notin {"int", "float", "string", "bytes"}
        \/ \E v \in last.arg :
              \/ last.data_type \in {"int", "float"} /\ v.t \in {"none", "list"}
              \/ /\ last.data_type \in {"int", "float", "bytes"}
                 /\ v.t = "str" /\ \E i \in 1..Len(v.s) : v.s[i] = "z")
    => /\ ~last.raised
       /\ ~last.ok
       /\ processes = prev

\* C24: undo returns False and changes nothing exactly when the cursor is 0,
\* redo returns False and changes nothing exactly when the cursor is on the
\* last entry; otherwise they return True and move the cursor by one, down
\* for undo and up for redo, and leave the history entries as they were.
UndoRedoMoveCursorByOne ==
    (last.op \in {"undo", "redo"} /\ PrevIsCallStart /\ last.pid \in DOMAIN prev)
    => LET before == prev[last.pid]
           after == processes[last.pid]
           blocked == IF last.op = "undo" THEN before.history_position = 0
                      ELSE before.history_position = Len(before.memory_history) - 1
       IN  /\ ~last.raised
           /\ last.ok = ~blocked
           /\ blocked => processes = prev
           /\ ~blocked =>
                 /\ after.history_position =
                       before.history_position + (IF last.op = "undo" THEN -1 ELSE 1)
                 /\ after.memory_history = before.memory_history

\* A redo that moved the cursor from the first to the second of three
\* entries
RedoFromFirstEntryWitness ==
    /\ last.op = "redo" /\ last.ok /\ PrevIsCallStart
    /\ Len(prev[P1].memory_history) = 3
    /\ prev[P1].history_position = 0
    /\ processes[P1].history_position = 1

\* C25: a successful write keeps the history entries up to the cursor, drops
\* those after it and appends one snapshot, on which the cursor then stands:
\* a redo right after the write returns False.
WriteCutsRedoBranch ==
    (/\ last.op = "write" /\ last.ok /\ PrevIsCallStart
     /\ Len(prev[last.pid].memory_history) < HistoryLimit)
    => LET before == prev[last.pid]
           after == processes[last.pid]
           kept == SubSeq(before.memory_history, 1, before.history_position + 1)
       IN  /\ Len(after.memory_history) = Len(kept) + 1
           /\ SubSeq(after.memory_history, 1, Len(kept)) = kept
           /\ after.history_position = Len(kept)
           /\ ~RedoMemoryEdit(processes, last.pid).ret

\* A write made with the cursor on the first of two entries
WriteAfterUndoWitness ==
    /\ last.op = "write" /\ last.ok /\ PrevIsCallStart /\ last.pid = P1
    /\ Len(prev[P1].memory_history) = 2
    /\ prev[P1].history_position = 0
    /\ Len(processes[P1].memory_history) = 2
    /\ processes[P1].history_position = 1

\* After k calls of undo_memory_change on p, one more returns False
RECURSIVE UndoFailsAfter(_, _)
UndoFailsAfter(p, k) ==
    IF k = 0 THEN ~UndoMemoryChange(p).ret
    ELSE \A undone \in {UndoMemoryChange(p).p} : UndoFailsAfter(undone, k - 1)

\* C26 as stated: whenever a successful write has saved its snapshot into a
\* history of 50 entries, the oldest entry is gone, the others follow in
\* their order, and the cursor stands on the appended entry, the 50th.
SaveIntoFiftyDropsOldest ==
    (/\ last.op = "write" /\ last.ok /\ PrevIsCallStart
     /\ Len(prev[last.pid].memory_history) = HistoryLimit)
    => LET before == prev[last.pid]
           after == processes[last.pid]
       IN  /\ after.history_position = HistoryLimit - 1
           /\ after.memory_history = Append(Tail(before.memory_history), before.memory)

\* C26, amended: whenever a successful write has saved its snapshot into a
\* history of 50 entries with the cursor on the last of them, the oldest
\* entry is gone, the others follow in their order, and the cursor stands on
\* the appended entry, the 50th; and in every state the 50th of consecutive
\* undos returns False.
SaveAtFullTailDropsOldest ==
    /\ (/\ last.op = "write" /\ last.ok /\ PrevIsCallStart
        /\ Len(prev[last.pid].memory_history) = HistoryLimit
        /\ prev[last.pid].history_position = HistoryLimit - 1)
       => LET before == prev[last.pid]
              after == processes[last.pid]
          IN  /\ after.history_position = HistoryLimit - 1
              /\ after.memory_history = Append(Tail(before.memory_history), before.memory)
    /\ \A pid \in DOMAIN processes : UndoFailsAfter(processes[pid], HistoryLimit - 1)

\* A write into a full history whose third entry differed from its
\* neighbours: it is the second entry afterwards
SaveShiftsEntriesWitness ==
    /\ last.op = "write" /\ last.ok /\ PrevIsCallStart
    /\ Len(prev[P1].memory_history) = HistoryLimit
    /\ prev[P1].history_position = HistoryLimit - 1
    /\ prev[P1].memory_history[3] # prev[P1].memory_history[2]
    /\ prev[P1].memory_history[3] # prev[P1].memory_history[4]
    /\ processes[P1].memory_history[2] = prev[P1].memory_history[3]


RunStopsOnlyAtEnabledExecution ==
    [][(/\ run.active
        /\ LoopContinues(processes[run.pid], run.steps, run.max_steps)
        /\ processes[run.pid].registers[RIP].t = "int")
       => LET p == processes[run.pid]
              after == processes'[run.pid]
              at == Hex(p.registers[RIP].n)
          IN  IF /\ at \in DOMAIN p.breakpoints
                 /\ p.breakpoints[at].enabled
                 /\ p.breakpoints[at].type = "execution"
              THEN /\ ~run'.active /\ last'.ok /\ ~last'.raised
                   /\ executed' = executed
                   /\ after.registers = p.registers
                   /\ after.memory = p.memory
                   /\ after.breakpoints[at].hit_count = p.breakpoints[at].hit_count + 1
              ELSE /\ executed' = executed + 1
                   /\ after.breakpoints = p.breakpoints
                   /\ run'.active \/ last'.raised]_vars

\* A run of two steps from main that ended after one instruction, on the
\* execution breakpoint at main + 3, with the instruction there not executed
RunHaltsOnArrivalWitness ==
    /\ last.op = "run" /\ ~run.active /\ last.ok
    /\ run.max_steps = 2 /\ run.count = 1
    /\ prev[P1].registers[RIP] = PyInt(MainAddr)
    /\ processes[P1].registers[RIP] = PyInt(MainAddr + 3)
    /\ processes[P1].breakpoints[Hex(MainAddr + 3)].hit_count = 1
    /\ processes[P1].breakpoints[Hex(MainAddr + 3)].type = "execution"

\* A run that went past main + 3 although a write breakpoint is enabled there
RunPassesOtherKindWitness ==
    /\ last.op = "run" /\ ~run.active /\ last.ok
    /\ run.count = 2
    /\ processes[P1].registers[RIP] = PyInt(MainAddr + 4)
    /\ Hex(MainAddr + 3) \in DOMAIN processes[P1].breakpoints
    /\ processes[P1].breakpoints[Hex(MainAddr + 3)].type = "write"
    /\ processes[P1].breakpoints[Hex(MainAddr + 3)].enabled
    /\ processes[P1].breakpoints[Hex(MainAddr + 3)].hit_count = 0


IsCanonicalAddress(a) ==
    /\ Len(a) >= 3
    /\ a[1] = "0" /\ a[2] = "x"
    /\ \A i \in 3..Len(a) : \E d \in 1..16 : HexChars[d] = a[i]
    /\ Len(a) > 3 => a[3] # "0"

\* C32: in every reachable state every key of the memory map of every
\* simulated process is a canonical address string, after executed
\* instructions too, a call executed with stack pointer 0 included.
MemoryKeysAreCanonical ==
    \A pid \in DOMAIN processes :
        \A a \in DOMAIN processes[pid].memory : IsCanonicalAddress(a)


\* 0 <= n < 2^64, the upper bound taken 16 bits at a time
IsWord64(n) ==
    /\ n >= 0
    /\ (((n \div 65536) \div 65536) \div 65536) \div 65536 = 0

\* C33: in every reachable state every general-purpose register, the stack
\* pointer and the instruction pointer hold an integer v with 0 <= v < 2^64.
RegistersHoldWords ==
    \A pid \in DOMAIN processes :
        \A r \in RegisterNames \ {<<"r", "f", "l", "a", "g", "s">>, <<"c", "f">>, ZF, SF,
                                   <<"o", "f">>} :
            /\ processes[pid].registers[r].t = "int"
            /\ IsWord64(processes[pid].registers[r].n)


\* C34: get_memory_regions on a simulated target returns exactly one region,
\* and every key of the process's memory map is an address in
\* [base_address, base_address + size).
SimulatedRegionSpansMemory ==
    (/\ qry.op = "get_memory_regions"
     /\ HasCurrent(bridge) /\ bridge.current_type = {"simulated"}
     /\ bridge.current_id \subseteq DOMAIN processes)
    => /\ Len(qry.value) = 1
       /\ LET p == processes[CHOOSE q \in bridge.current_id : TRUE]
              base == ParseInt16(qry.value[1].base_address).n
          IN  \A a \in DOMAIN p.memory :
                 /\ ParseInt16(a).ok
                 /\ base <= ParseInt16(a).n
                 /\ ParseInt16(a).n < base + qry.value[1].size


\* C35: a listing holds at most count instructions, in ascending address
\* order, none below the start address and none at or above it left out
\* before a listed one; it is empty when no stored instruction lies at or
\* above the start address.
ListingStartsAtStartAddress ==
    (/\ qry.op = "get_instructions" /\ qry.pid \in DOMAIN processes
     /\ ~GetInstructions(processes, qry.pid, qry.value.start_address,
                         qry.value.count).raised)
    => LET p == processes[qry.pid]
           listed == GetInstructions(processes, qry.pid, qry.value.start_address,
                                     qry.value.count).value
           start == IF qry.value.start_address = {} THEN p.registers[RIP].n
                    ELSE ParseInt16(CHOOSE a \in qry.value.start_address : TRUE).n
           at(i) == ParseInt16(listed[i].address).n
           stored == {ParseInt16(a).n : a \in DOMAIN p.instructions}
       IN  /\ Len(listed) <= qry.value.count
           /\ \A i \in 1..Len(listed) :
                 /\ listed[i] = p.instructions[listed[i].address]
                 /\ at(i) >= start
                 /\ \A j \in 1..(i - 1) : at(j) < at(i)
                 /\ \A a \in stored :
                        (a >= start /\ a < at(i)) => \E j \in 1..(i - 1) : at(j) = a
           /\ (\A a \in stored : a < start) => listed = <<>>


\* C36: right after a successful undo or redo the memory map is the history
\* entry under the cursor, and but for the memory map and the cursor the
\* process is as it was: registers, breakpoints with hit counts and enabled
\* flags, instructions, symbols and the history entries.
UndoRedoChangeMapAndCursorOnly ==
    (last.op \in {"undo", "redo"} /\ last.ok /\ PrevIsCallStart)
    => LET p == processes[last.pid]
           before == prev[last.pid]
       IN  /\ p.memory = p.memory_history[p.history_position + 1]
           /\ p.history_position # before.history_position
           /\ [p EXCEPT !.memory = before.memory,
                        !.history_position = before.history_position] = before
           /\ \A other \in DOMAIN processes \ {last.pid} : processes[other] = prev[other]

\* A redo that brought back the written 7 on a process with a breakpoint
\* that was hit and switched off, and with rip moved by a step
RedoKeepsBreakpointsWitness ==
    /\ last.op = "redo" /\ last.ok /\ PrevIsCallStart /\ last.pid = P1
    /\ processes[P1].memory[Addr1000] = PyInt(7)
    /\ prev[P1].memory[Addr1000] # PyInt(7)
    /\ processes[P1].registers[RIP] # PyInt(MainAddr)
    /\ Addr1000 \in DOMAIN processes[P1].breakpoints
    /\ processes[P1].breakpoints[Addr1000].hit_count = 1
    /\ ~processes[P1].breakpoints[Addr1000].enabled


\* C37: a step on an existing process returns true and does what the
\* instruction at rip does, with an enabled execution breakpoint at rip too;
\* it leaves every breakpoint (hit count, enabled flag), the history and the
\* cursor as they were.
StepIgnoresBreakpoints ==
    (last.op = "step" /\ PrevIsCallStart /\ last.pid \in DOMAIN prev)
    => LET before == prev[last.pid]
           p == processes[last.pid]
           x == ExecuteInstruction(before, Hex(before.registers[RIP].n))
       IN  /\ last.ok /\ ~last.raised
           /\ p.breakpoints = before.breakpoints
           /\ p.memory_history = before.memory_history
           /\ p.history_position = before.history_position
           /\ p.registers[RIP] = x.next_rip
           /\ p.memory = x.p.memory
           /\ \A r \in RegisterNames \ {RIP} : p.registers[r] = x.p.registers[r]

\* A step from main over the enabled execution breakpoint there, which an
\* earlier write had not touched: rip moved on, the hit count is still 0
StepOverBreakpointWitness ==
    /\ last.op = "step" /\ last.ok /\ PrevIsCallStart /\ last.pid = P1
    /\ last.addr = Hex(MainAddr)
    /\ ExecutionBreakpointAt(prev[P1], Hex(MainAddr))
    /\ processes[P1].registers[RIP] = PyInt(MainAddr + 3)
    /\ processes[P1].breakpoints[Hex(MainAddr)].hit_count = 0
    /\ processes[P1].breakpoints[Hex(MainAddr)].enabled
    /\ processes[P1].history_position = 1


\* C38: when write_memory(s, v, "int") returned True on a simulated target,
\* a following read_memory(s) with the same address string s returns the
\* bytes of v: both resolve s to the same cell.
BridgeReadsTheWrittenCell ==
    (/\ last.op = "write_memory" /\ last.ok
     /\ last.target0[1] = {"simulated"}
     /\ qry.op = "read_memory" /\ qry.pid = last.addr)
    => /\ ~qry.raised
       /\ qry.value = ValueBytes(last.val).value


\* C39: after every completed request of a handler that attaches the bridge
\* to a real process, on its success path and on its error paths, the bridge
\* holds no real target, the connector holds no process and no process is
\* traced.
HandlersReleaseRealProcess ==
    last.op \in {"view_real_process", "get_real_memory", "view_real_memory"}
    => /\ ~(HasCurrent(bridge) /\ bridge.current_type = {"real"})
       /\ ~CheckAttached(connector)
       /\ os.traced = {}


\* C40: with two handlers interleaved on the shared bridge, each handler's
\* write goes to the process this handler attached to, and each handler's
\* detach releases this handler's attachment only.
HandlersKeepTheirTargets ==
    \A h \in Handlers :
        /\ requests[h].pc = "written" => requests[h].target = {requests[h].pid}
        /\ requests[h].released \subseteq {requests[h].pid}

====
